---------------------------- MODULE Spec2Model ----------------------------
(***************************************************************************)
(* A model of the memfs in-memory filesystem: the inode / directory graph, *)
(* path resolution with symlink expansion, the read-write facade, open     *)
(* file handles, sealing, and the locking discipline.                       *)
(*                                                                         *)
(* Strings (paths, names, file contents) are sequences of one-character    *)
(* strings; Go's s[:k] is SubSeq(s, 1, k) and s[k:] is SubSeq(s, k+1, n).  *)
(***************************************************************************)
EXTENDS Integers, Sequences, FiniteSets, TLC

(***************************************************************************)
(* Strings and the path package                                            *)
(***************************************************************************)

\* F applied to the value v: a value used in several places is written once
With(v, F(_)) == F(v)

slash == <<"/">>

dot == <<".">>

dotdot == <<".", ".">>

\* s[:k]
Take(s, k) == SubSeq(s, 1, k)

\* s[k:]
Drop(s, k) == SubSeq(s, k + 1, Len(s))

\* strings.Index(s, "/"): the 0-based index of the first slash, or -1
IndexSlash(s) ==
    IF \E i \in 1..Len(s) : s[i] = "/"
    THEN (CHOOSE i \in 1..Len(s) : s[i] = "/" /\ \A j \in 1..(i - 1) : s[j] # "/") - 1
    ELSE -1

\* strings.LastIndex(s, "/")
LastIndexSlash(s) ==
    IF \E i \in 1..Len(s) : s[i] = "/"
    THEN (CHOOSE i \in 1..Len(s) : s[i] = "/" /\ \A j \in (i + 1)..Len(s) : s[j] # "/") - 1
    ELSE -1

HasPrefixSlash(s) == Len(s) > 0 /\ s[1] = "/"

\* strings.Split(s, "/"), computed on the two halves of s: the last
\* component of the first half continues in the first of the second
RECURSIVE SplitSlash(_)
SplitSlash(s) ==
    IF Len(s) = 0 THEN <<s>>
    ELSE IF Len(s) = 1 THEN (IF s = slash THEN <<(<<>>), (<<>>)>> ELSE <<s>>)
    ELSE With(Len(s) \div 2, LAMBDA m :
         With(SplitSlash(Take(s, m)), LAMBDA l :
         With(SplitSlash(Drop(s, m)), LAMBDA r :
             Take(l, Len(l) - 1) \o <<l[Len(l)] \o r[1]>> \o Tail(r))))

\* strings.Join(elems, "/"), computed on the two halves of elems
RECURSIVE JoinSlash(_)
JoinSlash(elems) ==
    IF Len(elems) = 0 THEN <<>>
    ELSE IF Len(elems) = 1 THEN elems[1]
    ELSE With(Len(elems) \div 2, LAMBDA m :
             JoinSlash(Take(elems, m)) \o slash \o JoinSlash(Drop(elems, m)))

\* What path.Clean keeps of a run of components: empty and "." components
\* are dropped and ".." removes the component before it.  up counts the
\* ".." that found nothing to remove in the run, out is what is left; the
\* run is cleaned as its two halves, the ".." left over from the second
\* half then removing components from the end of the first.
RECURSIVE CleanRun(_)
CleanRun(elems) ==
    IF Len(elems) = 0 THEN [up |-> 0, out |-> <<>>]
    ELSE IF Len(elems) = 1
    THEN (IF elems[1] = <<>> \/ elems[1] = dot THEN [up |-> 0, out |-> <<>>]
          ELSE IF elems[1] = dotdot THEN [up |-> 1, out |-> <<>>]
          ELSE [up |-> 0, out |-> elems])
    ELSE With(Len(elems) \div 2, LAMBDA m :
         With(CleanRun(Take(elems, m)), LAMBDA l :
         With(CleanRun(Drop(elems, m)), LAMBDA r :
             IF r.up > Len(l.out)
             THEN [up |-> l.up + r.up - Len(l.out), out |-> r.out]
             ELSE [up |-> l.up, out |-> Take(l.out, Len(l.out) - r.up) \o r.out])))

\* The components path.Clean keeps: on a rooted path a ".." with nothing
\* to remove is dropped, on any other path it is kept at the front.
CleanElems(elems, rooted) ==
    With(CleanRun(elems), LAMBDA c :
        IF rooted THEN c.out ELSE [i \in 1..c.up |-> dotdot] \o c.out)

\* path.Clean / filepath.Clean
Clean(p) ==
    IF Len(p) = 0 THEN dot
    ELSE With(JoinSlash(CleanElems(SplitSlash(p), HasPrefixSlash(p))), LAMBDA body :
            IF HasPrefixSlash(p) THEN slash \o body
            ELSE IF Len(body) = 0 THEN dot ELSE body)

\* path.Join / filepath.Join: empty elements are ignored, the rest joined
\* by slashes and cleaned; all empty gives the empty string.
Join(elems) ==
    With(SelectSeq(elems, LAMBDA e : Len(e) > 0), LAMBDA nonEmpty :
        IF Len(nonEmpty) = 0 THEN <<>> ELSE Clean(JoinSlash(nonEmpty)))

\* filepath.Split: the directory part (with its trailing slash) and the file part
SplitDir(p) == Take(p, LastIndexSlash(p) + 1)

SplitFile(p) == Drop(p, LastIndexSlash(p) + 1)

RECURSIVE StripTrailingSlashes(_)
StripTrailingSlashes(p) ==
    IF Len(p) > 0 /\ p[Len(p)] = "/" THEN StripTrailingSlashes(Take(p, Len(p) - 1)) ELSE p

\* filepath.Base
Base(p) ==
    IF Len(p) = 0 THEN dot
    ELSE With(StripTrailingSlashes(p), LAMBDA q :
            IF Len(q) = 0 THEN slash ELSE SplitFile(q))


(***************************************************************************)
(* Bounds of the model and constants of the program                        *)
(***************************************************************************)

\* node ids are 1..MaxNodes; the root directory is node RootId
MaxNodes == 4

\* open handles are 1..MaxHandles
MaxHandles == 1

\* files hold at most MaxLen bytes
MaxLen == 2

\* the clock (time.Now) runs over 0..MaxTime
MaxTime == 1

maxRedirects == 255

simpleGrowLimit == 512

growShift == 2

RootId == 1

NodeIds == 1..MaxNodes

(***************************************************************************)
(* fs.FileMode: a mode is the set of its bits.  "d" is fs.ModeDir, "L" is  *)
(* fs.ModeSymlink; "r", "w", "x" stand for the read, write and execute     *)
(* bits of the three permission classes (the code only ever masks a whole  *)
(* class row: 0o444, 0o222, 0o777).                                        *)
(***************************************************************************)

ModeDir == {"d"}

ModeSymlink == {"L"}

ModePerm == {"r", "w", "x"}

modeRead == {"r"}

modeWrite == {"w"}

canWrite == {"w"}

defaultPerms == {"r", "w"}

ErrNone == "ok"

ErrPermission == "ErrPermission"

ErrNotExist == "ErrNotExist"

ErrExist == "ErrExist"

ErrInvalid == "ErrInvalid"

ErrClosed == "ErrClosed"

EOF == "EOF"

\* a call that does not return: the run-time panic of make with a length
\* below zero, or of a slice expression with an index below zero
Panic == "panic"

(***************************************************************************)
(* Nodes.  A node is a directory (dnodeRW / dnode), a file or symlink      *)
(* (inodeRW / inode), or a free slot.  A directory holds its entries in    *)
(* order, each a name and the id of the node it refers to.  An inode holds *)
(* its backing array buf (of length cap) and the length len of its data.   *)
(***************************************************************************)

FreeNode == [kind |-> "free", mode |-> {}, modtime |-> 0, entries |-> <<>>, buf |-> <<>>, len |-> 0]

\* &dnodeRW{dnode: dnode{modtime: t, mode: mode}}
NewDnodeRW(mode, t) ==
    [kind |-> "dnodeRW", mode |-> mode, modtime |-> t, entries |-> <<>>, buf |-> <<>>, len |-> 0]

\* &inodeRW{inode: inode{data: data, modtime: t, mode: mode}}
NewInodeRW(mode, t, data) ==
    [kind |-> "inodeRW", mode |-> mode, modtime |-> t, entries |-> <<>>, buf |-> data, len |-> Len(data)]

IsDnode(n) == n.kind \in {"dnodeRW", "dnode"}

IsInode(n) == n.kind \in {"inodeRW", "inode"}

\* inode.data
Data(n) == SubSeq(n.buf, 1, n.len)

\* the index of the entry called name in a directory, 0 if there is none
EntryIndex(n, name) ==
    IF \E i \in 1..Len(n.entries) : n.entries[i].name = name
    THEN CHOOSE i \in 1..Len(n.entries) :
            /\ n.entries[i].name = name
            /\ \A j \in 1..(i - 1) : n.entries[j].name # name
    ELSE 0

\* dnode.getEntry / inode.getEntry: the entry (name, id) called name
getEntry(n, name) ==
    IF ~IsDnode(n) THEN [err |-> ErrInvalid, name |-> name, id |-> 0]
    ELSE IF n.mode \cap modeRead = {} THEN [err |-> ErrPermission, name |-> name, id |-> 0]
    ELSE With(EntryIndex(n, name), LAMBDA i :
             IF i = 0 THEN [err |-> ErrNotExist, name |-> name, id |-> 0]
             ELSE [err |-> ErrNone, name |-> name, id |-> n.entries[i].id])

\* dnode.setEntry putting the entry first
setEntryFirst(n, name, id, t) ==
    IF n.mode \cap modeWrite = {} THEN [err |-> ErrPermission, node |-> n]
    ELSE [err |-> ErrNone,
          node |-> [n EXCEPT !.entries = <<[name |-> name, id |-> id]>> \o @, !.modtime = t]]

\* dnode.setEntry: append the entry and refresh the modtime
setEntry(n, name, id, t) ==
    IF n.mode \cap modeWrite = {} THEN [err |-> ErrPermission, node |-> n]
    ELSE [err |-> ErrNone,
          node |-> [n EXCEPT !.entries = Append(@, [name |-> name, id |-> id]), !.modtime = t]]

\* slices.Delete(s, i-1, i)
DeleteAt(s, i) == SubSeq(s, 1, i - 1) \o SubSeq(s, i + 1, Len(s))

\* dnode.removeEntry without the look at the mode
removeEntryAnyMode(n, name, t) ==
    With(EntryIndex(n, name), LAMBDA i :
        IF i = 0 THEN [err |-> ErrNotExist, node |-> n]
        ELSE [err |-> ErrNone,
              node |-> [n EXCEPT !.entries = DeleteAt(@, i), !.modtime = t]])

\* dnode.removeEntry: remove the first entry called name
removeEntry(n, name, t) ==
    IF n.mode \cap modeWrite = {} THEN [err |-> ErrPermission, node |-> n]
    ELSE With(EntryIndex(n, name), LAMBDA i :
             IF i = 0 THEN [err |-> ErrNotExist, node |-> n]
             ELSE [err |-> ErrNone,
                   node |-> [n EXCEPT !.entries = DeleteAt(@, i), !.modtime = t]])

\* dnode.hasEntries
hasEntries(n) == Len(n.entries) > 0

\* dnode.getEntries
getEntries(n) ==
    IF n.mode \cap modeRead = {} THEN [err |-> ErrPermission, entries |-> <<>>]
    ELSE [err |-> ErrNone, entries |-> n.entries]

\* inode.bytes / inode.string (a directory has none)
bytes(n) ==
    IF IsDnode(n) THEN [err |-> ErrInvalid, data |-> <<>>]
    ELSE IF n.mode \cap modeRead = {} THEN [err |-> ErrPermission, data |-> <<>>]
    ELSE [err |-> ErrNone, data |-> Data(n)]

\* inode.setMode / dnode.setMode
setMode(n, mode) ==
    IF IsDnode(n) THEN [n EXCEPT !.mode = ModeDir \cup mode]
    ELSE [n EXCEPT !.mode = (@ \cap ModeSymlink) \cup mode]

\* inode.setTimes / dnode.setTimes
setTimes(n, mtime) == [n EXCEPT !.modtime = mtime]

(***************************************************************************)
(* The resolver (resolve.go).  r is the resolver struct; cutAt counts the  *)
(* characters of fullPath consumed up to and including the last slash.     *)
(***************************************************************************)

\* resolver.splitOffNamePart: the name split off and the resolver after it
splitOffNamePart(r) ==
    With(IndexSlash(r.path), LAMBDA slashPos :
        IF slashPos = -1
        THEN [name |-> r.path, r |-> [r EXCEPT !.path = <<>>]]
        ELSE [name |-> Take(r.path, slashPos),
              r |-> [r EXCEPT !.path = Drop(r.path, slashPos + 1),
                              !.cutAt = @ + slashPos + 1]])

isEmptyName(name) == name = <<>> \/ name = dot

\* resolver.handleSymlink: the path to resolve next, symPath being the
\* target of the symlink entry called symName
redirect(r, symName, symPath) ==
    IF HasPrefixSlash(symPath) THEN Drop(Clean(symPath), 1)
    ELSE IF r.path = <<>> THEN Join(<<Take(r.fullPath, r.cutAt), symPath>>)
    ELSE Join(<<Take(r.fullPath, r.cutAt - Len(symName) - 1), symPath, r.path>>)

\* resolver.handleSymlink, were it not to count the redirects
handleSymlinkUncounted(r, symName, sym) ==
    With(bytes(sym), LAMBDA symPath :
        IF symPath.err # ErrNone THEN [err |-> symPath.err, r |-> r]
        ELSE With(redirect(r, symName, symPath.data), LAMBDA fullPath :
                [err |-> ErrNone,
                 r |-> [r EXCEPT !.fullPath = fullPath, !.path = fullPath, !.cutAt = 0]]))

\* resolver.handleSymlink, for the symlink entry called symName whose node is sym
handleSymlink(r, symName, sym) ==
    With([r EXCEPT !.redirectsRemaining = (@ - 1) % 256], LAMBDA counted :
        IF counted.redirectsRemaining = 0 THEN [err |-> ErrInvalid, r |-> counted]
        ELSE With(bytes(sym), LAMBDA symPath :
                IF symPath.err # ErrNone THEN [err |-> symPath.err, r |-> counted]
                ELSE With(redirect(r, symName, symPath.data), LAMBDA fullPath :
                        [err |-> ErrNone,
                         r |-> [counted EXCEPT !.fullPath = fullPath, !.path = fullPath,
                                               !.cutAt = 0]])))

\* resolver.resolve: the loop is left with the error err
return(run, err) == [run EXCEPT !.done = TRUE, !.err = err]

\* resolver.resolve: one pass through the body of its loop.  A run of the
\* loop is the record of the resolver r, the node curr, and, once the loop
\* has been left, done and the error returned.
resolveStep(nodes, root, run) ==
    IF run.done THEN run
    ELSE IF run.r.path = <<>> THEN return(run, ErrNone)
    ELSE IF nodes[run.curr].mode \cap modeRead = {} THEN return(run, ErrPermission)
    ELSE With(splitOffNamePart(run.r), LAMBDA sp :
        IF isEmptyName(sp.name) THEN [run EXCEPT !.r = sp.r]
        ELSE With(getEntry(nodes[run.curr], sp.name), LAMBDA next :
            IF next.err # ErrNone THEN return(run, next.err)
            ELSE IF nodes[next.id].mode \cap ModeSymlink = {}
            THEN [run EXCEPT !.r = sp.r, !.curr = next.id]
            ELSE With(handleSymlink(sp.r, sp.name, nodes[next.id]), LAMBDA hs :
                IF hs.err # ErrNone THEN [return(run, hs.err) EXCEPT !.r = hs.r]
                ELSE [run EXCEPT !.r = hs.r, !.curr = root])))

\* n passes through the loop (fewer when it is left earlier)
RECURSIVE resolveSteps(_, _, _, _)
resolveSteps(nodes, root, run, n) ==
    IF n = 0 \/ run.done THEN run
    ELSE IF n = 1 THEN resolveStep(nodes, root, run)
    ELSE resolveSteps(nodes, root, resolveSteps(nodes, root, run, n \div 2), n - (n \div 2))

\* the loop run until it is left, n passes at first and twice as many each time after
RECURSIVE resolveLoop(_, _, _, _)
resolveLoop(nodes, root, run, n) ==
    With(resolveSteps(nodes, root, run, n), LAMBDA after :
        IF after.done THEN after ELSE resolveLoop(nodes, root, after, 2 * n))

\* resolver.resolve
resolve(nodes, root, r) ==
    With(resolveLoop(nodes, root, [r |-> r, curr |-> root, done |-> FALSE, err |-> ErrNone], 1),
         LAMBDA end : [err |-> end.err, id |-> IF end.err = ErrNone THEN end.curr ELSE 0])

\* the resolver fsRO.getEntryWithoutCheck makes for a path
newResolver(path) ==
    [fullPath |-> path, path |-> path, cutAt |-> 0, redirectsRemaining |-> maxRedirects]

\* fsRO.getEntryWithoutCheck
getEntryWithoutCheck(nodes, root, path) == resolve(nodes, root, newResolver(path))

(***************************************************************************)
(* Path lookup of the filesystem (fsRO)                                    *)
(***************************************************************************)

\* fsRO.joinRoot
joinRoot(path) == Join(<<slash, path>>)

\* fsRO.getEntry: the node a path names, symlinks followed
FSgetEntry(nodes, root, path) == getEntryWithoutCheck(nodes, root, joinRoot(path))

\* fsRO.getDirEnt: the directory a path names
FSgetDirEnt(nodes, root, path) ==
    With(FSgetEntry(nodes, root, path), LAMBDA de :
        IF de.err # ErrNone THEN de
        ELSE IF ~IsDnode(nodes[de.id]) THEN [err |-> ErrInvalid, id |-> 0]
        ELSE de)

\* fsRO.getLEntry: the entry a path names, its last component not followed
FSgetLEntry(nodes, root, path) ==
    With(joinRoot(path), LAMBDA jpath :
    With(FSgetDirEnt(nodes, root, SplitDir(jpath)), LAMBDA d :
        IF d.err # ErrNone THEN [err |-> d.err, name |-> <<>>, id |-> 0]
        ELSE IF jpath = slash THEN [err |-> ErrNone, name |-> slash, id |-> root]
        ELSE getEntry(nodes[d.id], SplitFile(jpath))))

mustNotExist == "mustNotExist"

mustExist == "mustExist"

doesntMatter == "doesntMatter"

\* fsRO.getEntryWithParent, were it to let a name that exists pass for one
\* that must not exist
FSgetEntryWithParentUnchecked(nodes, root, path, exists) ==
    With(SplitFile(path), LAMBDA child :
    With(FSgetDirEnt(nodes, root, SplitDir(path)), LAMBDA d :
    With(getEntry(nodes[d.id], child), LAMBDA c :
    With([err |-> ErrInvalid, d |-> 0, c |-> 0, name |-> child], LAMBDA none :
        IF child = <<>> THEN none
        ELSE IF d.err # ErrNone THEN [none EXCEPT !.err = d.err]
        ELSE IF (c.err # ErrNotExist \/ exists = mustExist) /\ c.err # ErrNone
        THEN [none EXCEPT !.err = c.err]
        ELSE [err |-> ErrNone, d |-> d.id,
              c |-> IF exists = mustNotExist THEN 0 ELSE c.id, name |-> child]))))

\* fsRO.getEntryWithParent, were it to look an empty last name up instead of
\* refusing it
FSgetEntryWithParentAnyChild(nodes, root, path, exists) ==
    With(SplitFile(path), LAMBDA child :
    With(FSgetDirEnt(nodes, root, SplitDir(path)), LAMBDA d :
    With(getEntry(nodes[d.id], child), LAMBDA c :
    With([err |-> ErrInvalid, d |-> 0, c |-> 0, name |-> child], LAMBDA none :
        IF d.err # ErrNone THEN [none EXCEPT !.err = d.err]
        ELSE IF (c.err # ErrNotExist \/ exists = mustExist) /\ c.err # ErrNone
        THEN [none EXCEPT !.err = c.err]
        ELSE IF (c.err # ErrNotExist \/ exists = mustExist) /\ exists = mustNotExist
        THEN [none EXCEPT !.err = ErrExist]
        ELSE [err |-> ErrNone, d |-> d.id, c |-> c.id, name |-> child]))))

\* fsRO.getEntryWithParent: the parent directory d and the entry c (id 0
\* when there is none) of a path, under the existence policy exists
FSgetEntryWithParent(nodes, root, path, exists) ==
    With(SplitFile(path), LAMBDA child :
    With(FSgetDirEnt(nodes, root, SplitDir(path)), LAMBDA d :
    With(getEntry(nodes[d.id], child), LAMBDA c :
    With([err |-> ErrInvalid, d |-> 0, c |-> 0, name |-> child], LAMBDA none :
        IF child = <<>> THEN none
        ELSE IF d.err # ErrNone THEN [none EXCEPT !.err = d.err]
        ELSE IF (c.err # ErrNotExist \/ exists = mustExist) /\ c.err # ErrNone
        THEN [none EXCEPT !.err = c.err]
        ELSE IF (c.err # ErrNotExist \/ exists = mustExist) /\ exists = mustNotExist
        THEN [none EXCEPT !.err = ErrExist]
        ELSE [err |-> ErrNone, d |-> d.id, c |-> c.id, name |-> child]))))

\* fsRO.ReadFile: a copy of the bytes of the file a path names
ReadFile(nodes, root, path) ==
    With(FSgetEntry(nodes, root, path), LAMBDA de :
        IF de.err # ErrNone THEN [err |-> de.err, data |-> <<>>]
        ELSE bytes(nodes[de.id]))

\* fsRO.Stat: mode, modtime and size of the node a path names
Stat(nodes, root, path) ==
    With(FSgetEntry(nodes, root, path), LAMBDA de :
        IF de.err # ErrNone THEN [err |-> de.err, mode |-> {}, modtime |-> 0, size |-> 0]
        ELSE [err |-> ErrNone, mode |-> nodes[de.id].mode,
              modtime |-> nodes[de.id].modtime, size |-> nodes[de.id].len])

\* fsRO.LStat
LStat(nodes, root, path) ==
    With(FSgetLEntry(nodes, root, path), LAMBDA de :
        IF de.err # ErrNone THEN [err |-> de.err, mode |-> {}, modtime |-> 0, size |-> 0]
        ELSE [err |-> ErrNone, mode |-> nodes[de.id].mode,
              modtime |-> nodes[de.id].modtime, size |-> nodes[de.id].len])

\* fsRO.Readlink
Readlink(nodes, root, path) ==
    With(FSgetLEntry(nodes, root, path), LAMBDA de :
        IF de.err # ErrNone THEN [err |-> de.err, data |-> <<>>]
        ELSE IF nodes[de.id].mode \cap ModeSymlink = {} THEN [err |-> ErrInvalid, data |-> <<>>]
        ELSE bytes(nodes[de.id]))

\* FS.ReadDir: the names of the entries of the directory a path names
ReadDir(nodes, root, path) ==
    With(FSgetDirEnt(nodes, root, path), LAMBDA d :
        IF d.err # ErrNone THEN [err |-> d.err, entries |-> <<>>]
        ELSE getEntries(nodes[d.id]))

(***************************************************************************)
(* The read-write facade (memfs_rw.go).  Each operation is a function of   *)
(* the node store, the root, its arguments and the time t of time.Now();   *)
(* it yields the error it returns and the node store it leaves.            *)
(***************************************************************************)

\* the id a newly allocated node gets (0 when the model has no id left)
Alloc(nodes) ==
    IF \E i \in NodeIds : nodes[i].kind = "free"
    THEN CHOOSE i \in NodeIds : nodes[i].kind = "free" /\ \A j \in 1..(i - 1) : nodes[j].kind # "free"
    ELSE 0

\* the result of a facade call that the model cannot run: it is out of node ids
OutOfNodes == "OutOfNodes"

Fail(nodes, err) == [err |-> err, nodes |-> nodes]

\* FS.mkdir
mkdir(nodes, root, path, perm, t) ==
    With(FSgetEntryWithParent(nodes, root, path, mustNotExist), LAMBDA p :
    With(Alloc(nodes), LAMBDA id :
    With(setEntry(nodes[p.d], Base(path), id, t), LAMBDA set :
        IF p.err # ErrNone THEN Fail(nodes, p.err)
        ELSE IF id = 0 THEN Fail(nodes, OutOfNodes)
        ELSE IF set.err # ErrNone THEN Fail(nodes, set.err)
        ELSE [err |-> ErrNone,
              nodes |-> [nodes EXCEPT ![id] = NewDnodeRW(ModeDir \cup perm, t), ![p.d] = set.node]])))

\* the loop of FS.MkdirAll over the prefixes of cpath, from offset last
RECURSIVE MkdirAllFrom(_, _, _, _, _, _)
MkdirAllFrom(nodes, root, cpath, last, perm, t) ==
    With(IndexSlash(Drop(cpath, last)), LAMBDA pos :
    With(mkdir(nodes, root, Take(cpath, last + pos), perm, t), LAMBDA made :
        IF pos < 0 THEN mkdir(nodes, root, cpath, perm, t)
        ELSE IF pos = 0 THEN MkdirAllFrom(nodes, root, cpath, last + 1, perm, t)
        ELSE IF made.err # ErrNone /\ made.err # ErrExist THEN made
        ELSE MkdirAllFrom(made.nodes, root, cpath, last + pos, perm, t)))

\* FS.MkdirAll
MkdirAll(nodes, root, path, perm, t) == MkdirAllFrom(nodes, root, Join(<<slash, path>>), 0, perm, t)

\* Mode: the set of the flags ReadOnly, WriteOnly, Append, Create, Excl, Truncate
ReadOnly == {"ReadOnly"}

WriteOnly == {"WriteOnly"}

AppendFlag == {"Append"}

Create == {"Create"}

Excl == {"Excl"}

Truncate == {"Truncate"}

ReadWrite == ReadOnly \cup WriteOnly

\* opMode: the set of the capabilities opRead, opWrite, opSeek; opClose is none
opClose == {}

opRead == {"opRead"}

opWrite == {"opWrite"}

opSeek == {"opSeek"}

\* existCheck with no policy at all
existCheckAny(mode) == doesntMatter

existCheck(mode) ==
    IF mode \cap Excl # {} THEN mustNotExist
    ELSE IF mode \cap Create = {} THEN mustExist
    ELSE doesntMatter

openMode(mode) ==
    opSeek \cup (IF mode \cap ReadOnly # {} THEN opRead ELSE {})
           \cup (IF mode \cap WriteOnly # {} THEN opWrite ELSE {})

\* a handle slot that holds no handle
NoHandle == [kind |-> "none", node |-> 0, name |-> <<>>, opMode |-> opClose, pos |-> 0, lastRead |-> 0]

\* open, were the permission bits of a regular file not looked at
openAnyMode(nodes, id, name, mode) ==
    IF IsDnode(nodes[id])
    THEN IF nodes[id].mode \cap modeRead = {} THEN [err |-> ErrPermission, handle |-> NoHandle]
         ELSE [err |-> ErrNone,
               handle |-> [kind |-> "directoryRW", node |-> id, name |-> name,
                           opMode |-> opClose, pos |-> 0, lastRead |-> 0]]
    ELSE [err |-> ErrNone,
          handle |-> [kind |-> "File", node |-> id, name |-> name,
                      opMode |-> mode, pos |-> 0, lastRead |-> 0]]

\* inodeRW.open / dnodeRW.open: the handle (a File, or a directoryRW)
open(nodes, id, name, mode) ==
    IF IsDnode(nodes[id])
    THEN IF nodes[id].mode \cap modeRead = {} THEN [err |-> ErrPermission, handle |-> NoHandle]
         ELSE [err |-> ErrNone,
               handle |-> [kind |-> "directoryRW", node |-> id, name |-> name,
                           opMode |-> opClose, pos |-> 0, lastRead |-> 0]]
    ELSE IF \/ (mode \cap opRead # {} /\ nodes[id].mode \cap modeRead = {})
            \/ (mode \cap opWrite # {} /\ nodes[id].mode \cap modeWrite = {})
    THEN [err |-> ErrPermission, handle |-> NoHandle]
    ELSE [err |-> ErrNone,
          handle |-> [kind |-> "File", node |-> id, name |-> name,
                      opMode |-> mode, pos |-> 0, lastRead |-> 0]]

\* FS.openOrCreateFile
openOrCreateFile(nodes, root, path, mode, perm, t) ==
    With(FSgetEntryWithParent(nodes, root, path, existCheck(mode)), LAMBDA p :
    With(Base(path), LAMBDA fileName :
    With(Alloc(nodes), LAMBDA id :
    With(setEntry(nodes[p.d], fileName, id, t), LAMBDA set :
    With([nodes EXCEPT ![id] = NewInodeRW(perm, t, <<>>), ![p.d] = set.node], LAMBDA created :
    With([err |-> ErrInvalid, nodes |-> nodes, handle |-> NoHandle], LAMBDA none :
        IF p.err # ErrNone THEN [none EXCEPT !.err = p.err]
        ELSE IF p.c # 0
        THEN With(open(nodes, p.c, fileName, openMode(mode)), LAMBDA of :
                 [err |-> of.err, nodes |-> nodes, handle |-> of.handle])
        ELSE IF id = 0 THEN [none EXCEPT !.err = OutOfNodes]
        ELSE IF set.err # ErrNone THEN [none EXCEPT !.err = set.err]
        ELSE With(open(created, id, fileName, openMode(mode)), LAMBDA of :
                 [err |-> of.err, nodes |-> created, handle |-> of.handle])))))))

\* handleOpenMode, were Truncate to leave the modification time alone
handleOpenModeKeepsTime(nodes, h, mode, t) ==
    With(IF mode \cap Truncate # {}
            THEN [nodes EXCEPT ![h.node].len = 0]
            ELSE nodes, LAMBDA truncated :
        [nodes |-> truncated,
         handle |-> IF mode \cap AppendFlag # {} THEN [h EXCEPT !.pos = truncated[h.node].len] ELSE h])

\* File.handleOpenMode: the handle and its inode after Truncate and Append
handleOpenMode(nodes, h, mode, t) ==
    With(IF mode \cap Truncate # {}
            THEN [nodes EXCEPT ![h.node].len = 0, ![h.node].modtime = t]
            ELSE nodes, LAMBDA truncated :
        [nodes |-> truncated,
         handle |-> IF mode \cap AppendFlag # {} THEN [h EXCEPT !.pos = truncated[h.node].len] ELSE h])

\* FS.openFile / FS.OpenFile
openFile(nodes, root, path, mode, perm, t) ==
    With(openOrCreateFile(nodes, root, path, mode, perm, t), LAMBDA of :
    With(handleOpenMode(of.nodes, of.handle, mode, t), LAMBDA ef :
        IF of.err # ErrNone THEN of
        ELSE IF of.handle.kind # "File"
        THEN [err |-> ErrInvalid, nodes |-> of.nodes, handle |-> NoHandle]
        ELSE [err |-> ErrNone, nodes |-> ef.nodes, handle |-> ef.handle]))

\* FS.Create
CreateFile(nodes, root, path, t) ==
    openFile(nodes, root, path, ReadWrite \cup Create \cup Truncate, defaultPerms, t)

\* FS.Open
Open(nodes, root, path) ==
    With(FSgetEntry(nodes, root, path), LAMBDA de :
        IF de.err # ErrNone THEN [err |-> de.err, handle |-> NoHandle]
        ELSE open(nodes, de.id, SplitFile(path), opRead \cup opSeek))

\* FS.Link, were the new entry to refer to a copy of the inode
LinkCopies(nodes, root, oldPath, newPath, t) ==
    With(FSgetLEntry(nodes, root, oldPath), LAMBDA oe :
    With(FSgetEntryWithParent(nodes, root, newPath, mustNotExist), LAMBDA p :
    With(Alloc(nodes), LAMBDA id :
    With(setEntry(nodes[p.d], Base(newPath), id, t), LAMBDA set :
        IF oe.err # ErrNone THEN Fail(nodes, oe.err)
        ELSE IF IsDnode(nodes[oe.id]) THEN Fail(nodes, ErrInvalid)
        ELSE IF p.err # ErrNone THEN Fail(nodes, p.err)
        ELSE IF set.err # ErrNone THEN Fail(nodes, set.err)
        ELSE IF id = 0 THEN Fail(nodes, OutOfNodes)
        ELSE [err |-> ErrNone, nodes |-> [nodes EXCEPT ![p.d] = set.node, ![id] = nodes[oe.id]]]))))

\* FS.Link
Link(nodes, root, oldPath, newPath, t) ==
    With(FSgetLEntry(nodes, root, oldPath), LAMBDA oe :
    With(FSgetEntryWithParent(nodes, root, newPath, mustNotExist), LAMBDA p :
    With(setEntry(nodes[p.d], Base(newPath), oe.id, t), LAMBDA set :
        IF oe.err # ErrNone THEN Fail(nodes, oe.err)
        ELSE IF IsDnode(nodes[oe.id]) THEN Fail(nodes, ErrInvalid)
        ELSE IF p.err # ErrNone THEN Fail(nodes, p.err)
        ELSE IF set.err # ErrNone THEN Fail(nodes, set.err)
        ELSE [err |-> ErrNone, nodes |-> [nodes EXCEPT ![p.d] = set.node]])))

\* FS.Symlink
Symlink(nodes, root, oldPath, newPath, t) ==
    With(FSgetEntryWithParent(nodes, root, newPath, mustNotExist), LAMBDA p :
    With(Alloc(nodes), LAMBDA id :
    With(setEntry(nodes[p.d], Base(newPath), id, t), LAMBDA set :
        IF p.err # ErrNone THEN Fail(nodes, p.err)
        ELSE IF id = 0 THEN Fail(nodes, OutOfNodes)
        ELSE IF set.err # ErrNone THEN Fail(nodes, set.err)
        ELSE [err |-> ErrNone,
              nodes |-> [nodes EXCEPT ![id] = NewInodeRW(ModeSymlink \cup ModePerm, t, Clean(oldPath)),
                                      ![p.d] = set.node]])))

\* FS.Rename as far as od.removeEntry: the checks, and the old name removed
\* (nd is the directory the new name goes to, c the node that is renamed)
RenameRemoved(nodes, root, oldPath, newPath, t) ==
    With(FSgetEntryWithParent(nodes, root, oldPath, mustExist), LAMBDA o :
    With(FSgetEntryWithParent(nodes, root, newPath, mustNotExist), LAMBDA n :
    With(removeEntry(nodes[o.d], o.name, t), LAMBDA rem :
    With([err |-> ErrInvalid, nodes |-> nodes, nd |-> 0, c |-> 0], LAMBDA none :
        IF o.err # ErrNone THEN [none EXCEPT !.err = o.err]
        ELSE IF n.err # ErrNone THEN [none EXCEPT !.err = n.err]
        ELSE IF nodes[n.d].mode \cap canWrite = {} THEN [none EXCEPT !.err = ErrPermission]
        ELSE IF rem.err # ErrNone THEN [none EXCEPT !.err = rem.err]
        ELSE [err |-> ErrNone, nodes |-> [nodes EXCEPT ![o.d] = rem.node], nd |-> n.d, c |-> o.c]))))

\* FS.Rename from nd.setEntry on: the node c entered in nd under its new name
RenameSet(nodes, nd, c, newPath, t) ==
    With(setEntry(nodes[nd], Base(newPath), c, t), LAMBDA set :
        IF set.err # ErrNone THEN Fail(nodes, set.err)
        ELSE [err |-> ErrNone, nodes |-> [nodes EXCEPT ![nd] = set.node]])

\* FS.Rename
Rename(nodes, root, oldPath, newPath, t) ==
    With(RenameRemoved(nodes, root, oldPath, newPath, t), LAMBDA removed :
        IF removed.err # ErrNone THEN Fail(nodes, removed.err)
        ELSE RenameSet(removed.nodes, removed.nd, removed.c, newPath, t))

\* FS.Remove without the look at the entries of a directory
RemoveFullDirectories(nodes, root, path, t) ==
    With(FSgetEntryWithParent(nodes, root, path, mustExist), LAMBDA p :
    With(removeEntry(nodes[p.d], p.name, t), LAMBDA rem :
        IF p.err # ErrNone THEN Fail(nodes, p.err)
        ELSE IF rem.err # ErrNone THEN Fail(nodes, rem.err)
        ELSE [err |-> ErrNone, nodes |-> [nodes EXCEPT ![p.d] = rem.node]]))

\* FS.Remove, were it to empty the file it takes the name from
RemoveErasing(nodes, root, path, t) ==
    With(FSgetEntryWithParent(nodes, root, path, mustExist), LAMBDA p :
    With(removeEntry(nodes[p.d], p.name, t), LAMBDA rem :
        IF p.err # ErrNone THEN Fail(nodes, p.err)
        ELSE IF IsDnode(nodes[p.c]) /\ hasEntries(nodes[p.c]) THEN Fail(nodes, ErrInvalid)
        ELSE IF rem.err # ErrNone THEN Fail(nodes, rem.err)
        ELSE [err |-> ErrNone, nodes |-> [nodes EXCEPT ![p.d] = rem.node, ![p.c].len = 0]]))

\* FS.Remove
Remove(nodes, root, path, t) ==
    With(FSgetEntryWithParent(nodes, root, path, mustExist), LAMBDA p :
    With(removeEntry(nodes[p.d], p.name, t), LAMBDA rem :
        IF p.err # ErrNone THEN Fail(nodes, p.err)
        ELSE IF IsDnode(nodes[p.c]) /\ hasEntries(nodes[p.c]) THEN Fail(nodes, ErrInvalid)
        ELSE IF rem.err # ErrNone THEN Fail(nodes, rem.err)
        ELSE [err |-> ErrNone, nodes |-> [nodes EXCEPT ![p.d] = rem.node]]))

\* strings.TrimPrefix(s, "/")
TrimPrefixSlash(s) == IF HasPrefixSlash(s) THEN Drop(s, 1) ELSE s

\* strings.TrimSuffix(s, "/")
TrimSuffixSlash(s) == IF Len(s) > 0 /\ s[Len(s)] = "/" THEN Take(s, Len(s) - 1) ELSE s

\* splitPath: the directory and the file name of a path
splitPathDir(path) ==
    With(SplitDir(Join(<<slash, path>>)), LAMBDA dirName :
        TrimSuffixSlash(IF dirName = slash THEN dot ELSE TrimPrefixSlash(dirName)))

splitPathFile(path) == SplitFile(Join(<<slash, path>>))

\* FS.RemoveAll
RemoveAll(nodes, root, path, t) ==
    With(FSgetDirEnt(nodes, root, splitPathDir(path)), LAMBDA d :
    With(removeEntry(nodes[d.id], splitPathFile(path), t), LAMBDA rem :
        IF d.err # ErrNone THEN Fail(nodes, d.err)
        ELSE IF rem.err # ErrNone THEN Fail(nodes, rem.err)
        ELSE [err |-> ErrNone, nodes |-> [nodes EXCEPT ![d.id] = rem.node]]))

\* FS.Chmod
Chmod(nodes, root, path, mode) ==
    With(FSgetEntry(nodes, root, path), LAMBDA de :
        IF de.err # ErrNone THEN Fail(nodes, de.err)
        ELSE [err |-> ErrNone,
              nodes |-> [nodes EXCEPT ![de.id] = setMode(@, mode \cap ModePerm)]])

\* FS.Chtimes
Chtimes(nodes, root, path, mtime) ==
    With(FSgetEntry(nodes, root, path), LAMBDA de :
        IF de.err # ErrNone THEN Fail(nodes, de.err)
        ELSE [err |-> ErrNone, nodes |-> [nodes EXCEPT ![de.id] = setTimes(@, mtime)]])

\* FS.Lchtimes
Lchtimes(nodes, root, path, mtime) ==
    With(FSgetLEntry(nodes, root, path), LAMBDA de :
        IF de.err # ErrNone THEN Fail(nodes, de.err)
        ELSE [err |-> ErrNone, nodes |-> [nodes EXCEPT ![de.id] = setTimes(@, mtime)]])

\* FS.Chown / FS.Lchown: the error of the lookup, nothing else
Chown(nodes, root, path) == FSgetEntry(nodes, root, path).err

Lchown(nodes, root, path) == FSgetLEntry(nodes, root, path).err

(***************************************************************************)
(* Open files (file.go, file_rw.go).  A handle operation is a function of  *)
(* the node store, the handle, its arguments and the time t; it yields the *)
(* error and the bytes it returns, and the node store and handle it leaves.*)
(***************************************************************************)

\* the zero byte
zero == "0"

\* make([]byte, n): n zero bytes
Zeros(n) == [i \in 1..n |-> zero]

\* file.validTo, were it not to look whether the handle is closed
validToUnclosed(nodes, h, m, needValidPos) ==
    IF h.opMode \cap m # m THEN ErrInvalid
    ELSE IF needValidPos /\ h.pos >= nodes[h.node].len THEN EOF
    ELSE ErrNone

\* file.validTo
validTo(nodes, h, m, needValidPos) ==
    IF h.opMode = opClose THEN ErrClosed
    ELSE IF h.opMode \cap m # m THEN ErrInvalid
    ELSE IF needValidPos /\ h.pos >= nodes[h.node].len THEN EOF
    ELSE ErrNone

HandleResult(err, nodes, h, out) == [err |-> err, nodes |-> nodes, handle |-> h, out |-> out]

Min(a, b) == IF a < b THEN a ELSE b

\* copy(dst[at:], src) on the backing array buf whose data has length len:
\* the array after the copy
CopyInto(buf, len, at, src) ==
    [i \in 1..Len(buf) |->
        IF i > at /\ i <= Min(len, at + Len(src)) THEN src[i - at] ELSE buf[i]]

\* file.Read, were it to move the modtime of the inode on
ReadTouching(nodes, h, k) ==
    With(validTo(nodes, h, opRead, TRUE), LAMBDA err :
    With(Min(k, nodes[h.node].len - h.pos), LAMBDA n :
        IF err # ErrNone THEN HandleResult(err, nodes, h, <<>>)
        ELSE HandleResult(ErrNone, [nodes EXCEPT ![h.node].modtime = @ + 1],
                          [h EXCEPT !.pos = @ + n, !.lastRead = 0],
                          SubSeq(Data(nodes[h.node]), h.pos + 1, h.pos + n))))

\* file.Read into a buffer of k bytes
Read(nodes, h, k) ==
    With(validTo(nodes, h, opRead, TRUE), LAMBDA err :
    With(Min(k, nodes[h.node].len - h.pos), LAMBDA n :
        IF err # ErrNone THEN HandleResult(err, nodes, h, <<>>)
        ELSE HandleResult(ErrNone, nodes, [h EXCEPT !.pos = @ + n, !.lastRead = 0],
                          SubSeq(Data(nodes[h.node]), h.pos + 1, h.pos + n))))

\* file.ReadAt into a buffer of k bytes
ReadAt(nodes, h, k, off) ==
    With(validTo(nodes, h, opRead \cup opSeek, FALSE), LAMBDA err :
    With(Min(k, nodes[h.node].len - off), LAMBDA n :
        IF err # ErrNone THEN HandleResult(err, nodes, h, <<>>)
        ELSE IF off >= nodes[h.node].len THEN HandleResult(EOF, nodes, h, <<>>)
        ELSE IF off < 0 THEN HandleResult(Panic, nodes, h, <<>>)
        ELSE HandleResult(IF n < k THEN EOF ELSE ErrNone, nodes, h,
                          SubSeq(Data(nodes[h.node]), off + 1, off + n))))

\* file.ReadByte
ReadByte(nodes, h) ==
    With(validTo(nodes, h, opRead, TRUE), LAMBDA err :
        IF err # ErrNone THEN HandleResult(err, nodes, h, <<>>)
        ELSE HandleResult(ErrNone, nodes, [h EXCEPT !.pos = @ + 1, !.lastRead = 1],
                          <<nodes[h.node].buf[h.pos + 1]>>))

\* file.UnreadByte, were it to leave lastRead as it is
UnreadByteKeepsLastRead(nodes, h) ==
    With(validTo(nodes, h, opRead \cup opSeek, FALSE), LAMBDA err :
        IF err # ErrNone THEN HandleResult(err, nodes, h, <<>>)
        ELSE IF h.lastRead # 1 THEN HandleResult(ErrInvalid, nodes, h, <<>>)
        ELSE HandleResult(ErrNone, nodes, [h EXCEPT !.pos = @ - 1], <<>>))

\* file.UnreadByte
UnreadByte(nodes, h) ==
    With(validTo(nodes, h, opRead \cup opSeek, FALSE), LAMBDA err :
        IF err # ErrNone THEN HandleResult(err, nodes, h, <<>>)
        ELSE IF h.lastRead # 1 THEN HandleResult(ErrInvalid, nodes, h, <<>>)
        ELSE HandleResult(ErrNone, nodes, [h EXCEPT !.lastRead = 0, !.pos = @ - 1], <<>>))

SeekStart == 0

SeekCurrent == 1

SeekEnd == 2

\* file.Seek, were it to leave a negative position as it is
SeekUnclamped(nodes, h, offset, whence) ==
    With(validTo(nodes, h, opSeek, FALSE), LAMBDA err :
    With(IF whence = SeekStart THEN offset
               ELSE IF whence = SeekCurrent THEN h.pos + offset
               ELSE nodes[h.node].len + offset, LAMBDA pos :
        IF err # ErrNone THEN HandleResult(err, nodes, h, <<>>)
        ELSE IF whence \notin {SeekStart, SeekCurrent, SeekEnd}
        THEN HandleResult(ErrInvalid, nodes, h, <<>>)
        ELSE HandleResult(IF pos < 0 THEN ErrInvalid ELSE ErrNone, nodes,
                          [h EXCEPT !.pos = pos, !.lastRead = 0], <<>>)))

\* file.Seek
Seek(nodes, h, offset, whence) ==
    With(validTo(nodes, h, opSeek, FALSE), LAMBDA err :
    With(IF whence = SeekStart THEN offset
               ELSE IF whence = SeekCurrent THEN h.pos + offset
               ELSE nodes[h.node].len + offset, LAMBDA pos :
        IF err # ErrNone THEN HandleResult(err, nodes, h, <<>>)
        ELSE IF whence \notin {SeekStart, SeekCurrent, SeekEnd}
        THEN HandleResult(ErrInvalid, nodes, h, <<>>)
        ELSE IF pos < 0
        THEN HandleResult(ErrInvalid, nodes, [h EXCEPT !.pos = 0, !.lastRead = 0], <<>>)
        ELSE HandleResult(ErrNone, nodes, [h EXCEPT !.pos = pos, !.lastRead = 0], <<>>)))

\* file.Close
Close(nodes, h) ==
    HandleResult(validTo(nodes, h, opClose, FALSE), nodes,
                 [h EXCEPT !.opMode = opClose, !.pos = 0, !.lastRead = 0], <<>>)

\* File.grow, were the new slice made with its capacity as its length
growToCapacity(n, size) ==
    IF size > n.len
    THEN [n EXCEPT !.buf = Data(n) \o Zeros(size * 2 - n.len), !.len = size * 2]
    ELSE n

\* File.grow: the inode with its data grown to size bytes
grow(n, size) ==
    IF size > n.len
    THEN IF size < Len(n.buf) THEN [n EXCEPT !.len = size]
         ELSE With(IF n.len < simpleGrowLimit THEN size * 2
                         ELSE size + (size \div (2 ^ growShift)), LAMBDA cap :
                  [n EXCEPT !.buf = Data(n) \o Zeros(cap - n.len), !.len = size])
    ELSE n

\* File.WriteString
WriteString(nodes, h, str, t) ==
    With(validTo(nodes, h, opWrite, FALSE), LAMBDA err :
    With(grow(nodes[h.node], h.pos + Len(str)), LAMBDA grown :
    With(Min(Len(str), grown.len - h.pos), LAMBDA n :
    With([grown EXCEPT !.buf = CopyInto(grown.buf, grown.len, h.pos, str), !.modtime = t], LAMBDA written :
        IF err # ErrNone THEN HandleResult(err, nodes, h, <<>>)
        ELSE HandleResult(ErrNone, [nodes EXCEPT ![h.node] = written],
                          [h EXCEPT !.pos = @ + n, !.lastRead = 0], <<>>)))))

\* File.WriteAt
WriteAt(nodes, h, p, off, t) ==
    With(validTo(nodes, h, opWrite \cup opSeek, FALSE), LAMBDA err :
    With(grow(nodes[h.node], off + Len(p)), LAMBDA grown :
    With([grown EXCEPT !.buf = CopyInto(grown.buf, grown.len, off, p), !.modtime = t], LAMBDA written :
        IF err # ErrNone THEN HandleResult(err, nodes, h, <<>>)
        ELSE IF off < 0 THEN HandleResult(Panic, [nodes EXCEPT ![h.node] = grown], h, <<>>)
        ELSE HandleResult(ErrNone, [nodes EXCEPT ![h.node] = written], h, <<>>))))

\* io.ReadAll over a handle: file.Read until it returns EOF
RECURSIVE ReadAll(_, _)
ReadAll(nodes, h) ==
    With(Read(nodes, h, 1), LAMBDA r :
    With(ReadAll(nodes, r.handle), LAMBDA rest :
        IF r.err = EOF THEN HandleResult(ErrNone, nodes, h, <<>>)
        ELSE IF r.err # ErrNone THEN r
        ELSE [rest EXCEPT !.out = r.out \o @]))

\* the bytes of a rune of two bytes: its lead byte and its continuation byte
lead == "L"

cont == "c"

\* utf8.RuneError, which utf8.DecodeRune returns for bytes that encode no rune
RuneError == <<"RuneError">>

\* utf8.DecodeRune(data[pos:]): the size of the rune decoded (1 for bytes
\* that encode none)
RuneSize(data, pos) ==
    IF pos + 2 <= Len(data) /\ data[pos + 1] = lead /\ data[pos + 2] = cont THEN 2 ELSE 1

\* utf8.DecodeRune(data[pos:]): the rune decoded, as the bytes that encode it
DecodeRune(data, pos) ==
    IF RuneSize(data, pos) = 2 THEN <<lead, cont>>
    ELSE IF data[pos + 1] \in {lead, cont} THEN RuneError
    ELSE <<data[pos + 1]>>

\* file.ReadRune
ReadRune(nodes, h) ==
    With(validTo(nodes, h, opRead, TRUE), LAMBDA err :
    With(RuneSize(Data(nodes[h.node]), h.pos), LAMBDA s :
        IF err # ErrNone THEN HandleResult(err, nodes, h, <<>>)
        ELSE HandleResult(ErrNone, nodes, [h EXCEPT !.lastRead = s, !.pos = @ + s],
                          DecodeRune(Data(nodes[h.node]), h.pos))))

\* file.UnreadRune
UnreadRune(nodes, h) ==
    With(validTo(nodes, h, opRead \cup opSeek, FALSE), LAMBDA err :
        IF err # ErrNone THEN HandleResult(err, nodes, h, <<>>)
        ELSE IF h.lastRead = 0 THEN HandleResult(ErrInvalid, nodes, h, <<>>)
        ELSE HandleResult(ErrNone, nodes, [h EXCEPT !.pos = @ - h.lastRead, !.lastRead = 0], <<>>))

(***************************************************************************)
(* Seal (memfs_rw.go, directory_rw.go, file_rw.go).  The sealed tree is a  *)
(* node store of its own: a sealed node's id is the sequence of the entry  *)
(* indexes that lead to it from the root.                                  *)
(***************************************************************************)

\* inodeRW.seal: the plain copy it returns
SealedInode(n) == [n EXCEPT !.kind = "inode"]

\* the wrapper inodeRW.seal and dnodeRW.seal leave behind
Blank(n) == [FreeNode EXCEPT !.kind = n.kind]

\* dnodeRW.seal: the copy it returns, its entries the sealed ones
SealedDnode(de, at) ==
    [de EXCEPT !.kind = "dnode",
               !.entries = [i \in 1..Len(de.entries) |->
                              [name |-> de.entries[i].name, id |-> Append(at, i)]]]

\* dnodeRW.seal and inodeRW.seal: rw is the node store they leave, ro the
\* sealed nodes they made for the node id, which gets the sealed id at
RECURSIVE sealEntries(_, _, _, _)
RECURSIVE seal(_, _, _)
seal(nodes, id, at) ==
    IF IsDnode(nodes[id])
    THEN With(nodes[id], LAMBDA de :
         With(sealEntries(nodes, de.entries, 1, at), LAMBDA sub :
             [rw |-> [sub.rw EXCEPT ![id] = Blank(de)],
              ro |-> sub.ro @@ (at :> SealedDnode(de, at))]))
    ELSE [rw |-> [nodes EXCEPT ![id] = Blank(nodes[id])],
          ro |-> (at :> SealedInode(nodes[id]))]

\* the loop of dnodeRW.seal over the entries, from entry n
sealEntries(nodes, entries, n, at) ==
    IF n > Len(entries) THEN [rw |-> nodes, ro |-> <<>>]
    ELSE With(seal(nodes, entries[n].id, Append(at, n)), LAMBDA one :
         With(sealEntries(one.rw, entries, n + 1, at), LAMBDA rest :
             [rw |-> rest.rw, ro |-> one.ro @@ rest.ro]))

\* the root of the filesystem FS.Seal returns
SealedRoot == <<>>

\* FS.Seal
Seal(nodes, root) == seal(nodes, root, SealedRoot)

(***************************************************************************)
(* Locks (memfs_rw.go, directory_rw.go, file_rw.go): one sync.RWMutex for  *)
(* the filesystem and one for every node.  A mutex is the thread that      *)
(* holds it for writing (0 when none does) and the threads that hold it    *)
(* for reading.                                                            *)
(***************************************************************************)

MaxThreads == 2

Threads == 1..MaxThreads

\* how many calls a thread makes
MaxCalls == 2

Unlocked == [writer |-> 0, readers |-> {}]

\* mu.Lock() / mu.RLock() can go ahead: kind is "Lock", "RLock", or "none"
\* for a call that takes no lock
CanAcquire(mu, kind) ==
    IF kind = "Lock" THEN mu.writer = 0 /\ mu.readers = {}
    ELSE IF kind = "RLock" THEN mu.writer = 0
    ELSE TRUE

\* the mutex after thread t's mu.Lock() / mu.RLock()
Acquire(mu, kind, t) ==
    IF kind = "Lock" THEN [mu EXCEPT !.writer = t]
    ELSE IF kind = "RLock" THEN [mu EXCEPT !.readers = @ \cup {t}]
    ELSE mu

\* the mutex after thread t's mu.Unlock() / mu.RUnlock()
Release(mu, kind, t) ==
    IF kind = "Lock" THEN [mu EXCEPT !.writer = 0]
    ELSE IF kind = "RLock" THEN [mu EXCEPT !.readers = @ \ {t}]
    ELSE mu

\* how each method of FS takes the FS-wide lock f.mu.  Open is not defined
\* on FS: it is the method of the embedded fsRO, which takes no lock.
FSLockOf(op) ==
    IF op \in {"Seal", "Mkdir", "MkdirAll", "Create", "OpenFile", "Link", "Symlink",
               "Rename", "Remove", "RemoveAll"}
    THEN "Lock"
    ELSE IF op \in {"ReadDir", "ReadFile", "Stat", "LStat", "Readlink", "Chown", "Chmod",
                    "Lchown", "Chtimes", "Lchtimes", "Sub"}
    THEN "RLock"
    ELSE "none"

\* the methods of File, were Write to take no lock
InodeLockOfUnlockedWrite(op) ==
    IF op = "Write" THEN "none"
    ELSE IF op \in {"ReadAt", "bytes"} THEN "RLock"
    ELSE "Lock"

\* how each method of File, and inodeRW.bytes and inodeRW.seal, take the
\* lock of the inode
InodeLockOf(op) ==
    IF op \in {"Read", "ReadByte", "UnreadByte", "ReadRune", "UnreadRune", "WriteTo", "Seek",
               "Close", "Write", "WriteAt", "WriteString", "WriteByte", "WriteRune",
               "ReadFrom", "seal"}
    THEN "Lock"
    ELSE IF op \in {"ReadAt", "bytes"} THEN "RLock"
    ELSE "none"

\* File.Write as far as f.grow: the inode grown
WriteGrown(nodes, h, p) ==
    With(validTo(nodes, h, opWrite, FALSE), LAMBDA err :
        IF err # ErrNone THEN [err |-> err, nodes |-> nodes]
        ELSE [err |-> ErrNone, nodes |-> [nodes EXCEPT ![h.node] = grow(@, h.pos + Len(p))]])

\* File.Write from the copy on: the bytes copied, the handle moved on
WriteCopied(nodes, h, p, t) ==
    With(nodes[h.node], LAMBDA grown :
    With(Min(Len(p), grown.len - h.pos), LAMBDA n :
        HandleResult(ErrNone,
                     [nodes EXCEPT ![h.node] = [grown EXCEPT !.buf = CopyInto(grown.buf, grown.len, h.pos, p),
                                                            !.modtime = t]],
                     [h EXCEPT !.pos = @ + n, !.lastRead = 0], <<>>)))

\* File.Write
Write(nodes, h, p, t) ==
    With(WriteGrown(nodes, h, p), LAMBDA grown :
        IF grown.err # ErrNone THEN HandleResult(grown.err, nodes, h, <<>>)
        ELSE WriteCopied(grown.nodes, h, p, t))

\* File.WriteTo as far as the call of w.Write: the bytes it passes on
WriteToData(nodes, h) ==
    With(validTo(nodes, h, opRead, TRUE), LAMBDA err :
        IF err # ErrNone THEN [err |-> err, data |-> <<>>]
        ELSE [err |-> ErrNone, data |-> Drop(Data(nodes[h.node]), h.pos)])

\* File.WriteTo after w.Write has written n bytes
WriteToDone(h, n) == [h EXCEPT !.pos = @ + n, !.lastRead = 0]

\* File.WriteTo to a writer whose Write takes the first `taken` of the bytes
\* it is given (all of them and no error, or fewer and the error werr)
WriteTo(nodes, h, taken, werr) ==
    With(WriteToData(nodes, h), LAMBDA d :
    With(Min(taken, Len(d.data)), LAMBDA n :
        IF d.err # ErrNone THEN HandleResult(d.err, nodes, h, <<>>)
        ELSE HandleResult(IF n < Len(d.data) THEN werr ELSE ErrNone, nodes, WriteToDone(h, n),
                          Take(d.data, n))))

\* File.WriteByte
WriteByte(nodes, h, c, t) ==
    With(validTo(nodes, h, opWrite, FALSE), LAMBDA err :
    With(grow(nodes[h.node], h.pos + 1), LAMBDA grown :
        IF err # ErrNone THEN HandleResult(err, nodes, h, <<>>)
        ELSE HandleResult(ErrNone,
                          [nodes EXCEPT ![h.node] =
                              [grown EXCEPT !.buf = [@ EXCEPT ![h.pos + 1] = c], !.modtime = t]],
                          [h EXCEPT !.pos = @ + 1, !.lastRead = 0], <<>>)))

\* File.WriteRune: utf8.AppendRune gives the bytes of the rune r, which are
\* written the way File.Write writes them
WriteRune(nodes, h, r, t) ==
    With(validTo(nodes, h, opWrite, FALSE), LAMBDA err :
        IF err # ErrNone THEN HandleResult(err, nodes, h, <<>>)
        ELSE WriteCopied([nodes EXCEPT ![h.node] = grow(@, h.pos + Len(r))], h, r, t))

\* the loop of File.ReadFrom, from a reader that has the bytes src left and
\* gives as many as fit in the buffer it is handed, then io.EOF: n is the
\* inode, pos the position of the handle
RECURSIVE ReadFromLoop(_, _, _)
ReadFromLoop(n, pos, src) ==
    With(grow(n, pos + 1), LAMBDA grown :
    With(Min(Len(grown.buf) - pos, Len(src)), LAMBDA k :
    With([grown EXCEPT !.buf = CopyInto(@, Len(@), pos, Take(src, k)), !.len = pos + k], LAMBDA read :
        IF src = <<>> THEN [node |-> read, pos |-> pos]
        ELSE ReadFromLoop(read, pos + k, Drop(src, k)))))

\* File.ReadFrom
ReadFrom(nodes, h, src) ==
    With(validTo(nodes, h, opWrite, FALSE), LAMBDA err :
    With(ReadFromLoop(nodes[h.node], h.pos, src), LAMBDA end :
        IF err # ErrNone THEN HandleResult(err, nodes, h, <<>>)
        ELSE HandleResult(ErrNone, [nodes EXCEPT ![h.node] = end.node],
                          [h EXCEPT !.pos = end.pos], <<>>)))

\* a thread between calls, and the fields of a call under way: the method,
\* the place in it, its arguments (path, newPath, the handles h and w, the
\* bytes p), its local variables (the resolver run, the directory d, the
\* node c), its result, the results that the whole calls made while it was
\* under way allow, and the calls the thread has left
Idle ==
    [op |-> "idle", pc |-> "idle", path |-> <<>>, newPath |-> <<>>, h |-> 0, w |-> 0, p |-> <<>>,
     run |-> [r |-> newResolver(<<>>), curr |-> RootId, done |-> FALSE, err |-> ErrNone],
     d |-> 0, c |-> 0, res |-> <<>>, seen |-> {}, left |-> MaxCalls]

(***************************************************************************)
(* The state: one read-write filesystem, its open handles, the clock, and  *)
(* the read-only filesystem Seal returned.                                 *)
(***************************************************************************)

VARIABLES
    heap,     \* the nodes of the read-write filesystem, by id
    handles,  \* the handles returned by Open, OpenFile and Create, by slot
    now,      \* the time time.Now() returns
    ro,       \* the nodes of the filesystem Seal returned (none before Seal)
    links,    \* the pairs (old, new) of successful Link calls still in place
    run,      \* a path resolution under way: the resolver, the node reached
    query,    \* the path that resolution was started for
    steps,    \* the passes through the resolver's loop so far
    met,      \* the symlinks that resolution has met so far
    fsmu,     \* the FS-wide lock
    mus,      \* the locks of the nodes, by id
    calls,    \* the call each thread is in
    whole,    \* where threads run: the nodes as the calls that have taken
              \* effect leave them when each is applied as a whole
    last      \* the latest call made on each handle and what it returned,
              \* by slot (where the calls on handles are recorded)

vars == <<heap, handles, now, ro, links, run, query, steps, met, fsmu, mus, calls, whole,
          last>>

\* the variables of a path resolution taken step by step
resolving == <<run, query, steps, met>>

\* the variables of the threads
threading == <<fsmu, mus, calls, whole>>

\* no thread is in a call
NoCalls ==
    /\ fsmu = Unlocked
    /\ mus = [i \in NodeIds |-> Unlocked]
    /\ calls = [t \in Threads |-> Idle]

HandleIds == 1..MaxHandles

Sealed == DOMAIN ro # {}

\* the resolver fsRO.getEntryWithoutCheck sets up for a path, at the root
start(path) == [r |-> newResolver(path), curr |-> RootId, done |-> FALSE, err |-> ErrNone]

\* memfs.New()
New == [i \in NodeIds |-> IF i = RootId THEN NewDnodeRW(ModeDir \cup ModePerm, 0) ELSE FreeNode]

Init ==
    /\ heap = New
    /\ handles = [h \in HandleIds |-> NoHandle]
    /\ now = 0
    /\ ro = <<>>
    /\ links = {}
    /\ run = start(<<>>)
    /\ query = [path |-> <<>>, symlinks |-> 0]
    /\ steps = 0
    /\ met = 0
    /\ NoCalls
    /\ whole = heap
    /\ last = <<>>

\* the nodes that an entry or a handle still refers to
Refs(nodes, ids) ==
    ids \cup UNION {{nodes[i].entries[k].id : k \in 1..Len(nodes[i].entries)} : i \in ids}

RECURSIVE Live(_, _)
Live(nodes, ids) == IF Refs(nodes, ids) = ids THEN ids ELSE Live(nodes, Refs(nodes, ids))

\* the node store once the garbage collector has freed what nothing refers to
Collect(nodes, hs) ==
    LET live == Live(nodes, {RootId} \cup {hs[h].node : h \in {x \in HandleIds : hs[x].kind # "none"}})
    IN  [i \in NodeIds |-> IF i \in live THEN nodes[i] ELSE FreeNode]

\* a slot is free when it holds no handle, or one that was closed and dropped
IsFree(h) == handles[h].kind = "none" \/ (handles[h].kind = "File" /\ handles[h].opMode = opClose)

\* the slot the next handle gets (0 when the model has none left)
FreeHandle ==
    IF \E h \in HandleIds : IsFree(h)
    THEN CHOOSE h \in HandleIds : IsFree(h) /\ \A g \in 1..(h - 1) : ~IsFree(g)
    ELSE 0

\* a facade call that changes nothing but the tree
TreeCall(r) ==
    /\ ~Sealed
    /\ r.err # OutOfNodes
    /\ heap' = Collect(r.nodes, handles)
    /\ UNCHANGED <<handles, now, ro, resolving, threading, last>>

\* a facade call that takes a name away
UnlinkCall(r) ==
    /\ TreeCall(r)
    /\ links' = IF r.err = ErrNone THEN {} ELSE links

CallMkdir(path, perm) ==
    /\ TreeCall(mkdir(heap, RootId, path, perm, now))
    /\ UNCHANGED links

CallMkdirAll(path, perm) ==
    /\ TreeCall(MkdirAll(heap, RootId, path, perm, now))
    /\ UNCHANGED links

CallSymlink(oldPath, newPath) ==
    /\ TreeCall(Symlink(heap, RootId, oldPath, newPath, now))
    /\ UNCHANGED links

CallLink(oldPath, newPath) ==
    LET r == Link(heap, RootId, oldPath, newPath, now)
    IN  /\ TreeCall(r)
        /\ links' = IF r.err = ErrNone THEN links \cup {<<oldPath, newPath>>} ELSE links

CallRename(oldPath, newPath) ==
    UnlinkCall(Rename(heap, RootId, oldPath, newPath, now))

CallRemove(path) == UnlinkCall(Remove(heap, RootId, path, now))

CallRemoveAll(path) == UnlinkCall(RemoveAll(heap, RootId, path, now))

CallChmod(path, mode) ==
    /\ TreeCall(Chmod(heap, RootId, path, mode))
    /\ UNCHANGED links

\* FS.OpenFile (FS.Create is OpenFile with ReadWrite|Create|Truncate and 0o666)
CallOpenFile(path, mode, perm) ==
    LET r == openFile(heap, RootId, path, mode, perm, now)
        h == FreeHandle
    IN  /\ ~Sealed
        /\ r.err # OutOfNodes
        /\ h # 0
        /\ handles' = IF r.err = ErrNone THEN [handles EXCEPT ![h] = r.handle] ELSE handles
        /\ heap' = Collect(r.nodes, handles')
        /\ UNCHANGED <<now, ro, links, resolving, threading, last>>

\* FS.Create
CallCreate(path) ==
    LET r == CreateFile(heap, RootId, path, now)
        h == FreeHandle
    IN  /\ ~Sealed
        /\ r.err # OutOfNodes
        /\ h # 0
        /\ handles' = IF r.err = ErrNone THEN [handles EXCEPT ![h] = r.handle] ELSE handles
        /\ heap' = Collect(r.nodes, handles')
        /\ UNCHANGED <<now, ro, links, resolving, threading, last>>

\* FS.Open
CallOpen(path) ==
    LET r == Open(heap, RootId, path)
        h == FreeHandle
    IN  /\ ~Sealed
        /\ h # 0
        /\ handles' = IF r.err = ErrNone THEN [handles EXCEPT ![h] = r.handle] ELSE handles
        /\ UNCHANGED <<heap, now, ro, links, resolving, threading, last>>

\* an operation on the handle in slot h
HandleCall(h, r) ==
    /\ ~Sealed
    /\ handles[h].kind = "File"
    /\ heap' = r.nodes
    /\ handles' = [handles EXCEPT ![h] = r.handle]
    /\ UNCHANGED <<now, ro, links, resolving, threading, last>>

CallWrite(h, p) ==
    /\ handles[h].pos + Len(p) <= MaxLen
    /\ HandleCall(h, Write(heap, handles[h], p, now))

CallWriteString(h, str) ==
    /\ handles[h].pos + Len(str) <= MaxLen
    /\ HandleCall(h, WriteString(heap, handles[h], str, now))

CallWriteAt(h, p, off) ==
    /\ off + Len(p) <= MaxLen
    /\ HandleCall(h, WriteAt(heap, handles[h], p, off, now))

CallRead(h, k) == HandleCall(h, Read(heap, handles[h], k))

CallSeek(h, offset, whence) ==
    /\ handles[h].pos + offset <= MaxLen
    /\ HandleCall(h, Seek(heap, handles[h], offset, whence))

CallClose(h) == HandleCall(h, Close(heap, handles[h]))

\* File.Close, after which the program lets go of the handle
CallCloseAndDrop(h) ==
    LET r == Close(heap, handles[h])
    IN  /\ ~Sealed
        /\ handles[h].kind = "File"
        /\ handles' = [handles EXCEPT ![h] = NoHandle]
        /\ heap' = Collect(r.nodes, handles')
        /\ UNCHANGED <<now, ro, links, resolving, threading, last>>

\* FS.Seal
CallSeal ==
    LET r == Seal(heap, RootId)
    IN  /\ ~Sealed
        /\ heap' = r.rw
        /\ ro' = r.ro
        /\ UNCHANGED <<handles, now, links, resolving, threading, last>>

\* time passes
Tick ==
    /\ ~Sealed
    /\ now < MaxTime
    /\ now' = now + 1
    /\ UNCHANGED <<heap, handles, ro, links, resolving, threading, last>>

(***************************************************************************)
(* The arguments the calls are made with                                   *)
(***************************************************************************)

Paths == {<<"/", "a">>, <<"/", "b">>, <<"/", "a", "/", "b">>}

\* the targets of the symlinks made: an absolute and a relative one
Targets == {<<"/", "a">>, <<"a">>}

Perms == {ModePerm, {"r"}}

\* what is written to files
Payloads == {<<"x">>, <<"y", "y">>}

\* the paths the claims look at
Probes == Paths \cup {<<"/">>}

\* what the read operations return for a path
Observe(nodes, root, path) ==
    LET dir == ReadDir(nodes, root, path)
    IN  [ReadFile |-> ReadFile(nodes, root, path),
         Stat     |-> Stat(nodes, root, path),
         LStat    |-> LStat(nodes, root, path),
         Readlink |-> Readlink(nodes, root, path),
         ReadDir  |-> [err |-> dir.err,
                       names |-> [i \in 1..Len(dir.entries) |-> dir.entries[i].name]]]

(***************************************************************************)
(* Seal: a tree is built, with files written, symlinks and hard links,     *)
(* and then sealed.                                                        *)
(***************************************************************************)

NextSeal ==
    \/ CallMkdir(<<"/", "a">>, ModePerm)
    \/ \E path \in Paths : CallOpenFile(path, ReadWrite \cup Create \cup Truncate, defaultPerms)
    \/ \E h \in HandleIds : CallWrite(h, <<"x">>)
    \/ \E h \in HandleIds : CallCloseAndDrop(h)
    \/ \E oldPath \in Targets : CallSymlink(oldPath, <<"/", "b">>)
    \/ \E oldPath \in Paths, newPath \in Paths : CallLink(oldPath, newPath)
    \/ \E path \in Paths : CallChmod(path, {"r"})
    \/ CallSeal

SpecSeal == Init /\ [][NextSeal]_vars

\* C1: when Seal is called, every path that resolved before the call
\* (whatever it names: a file, a directory, a symlink, one of several hard
\* links) reads the same on the filesystem Seal returns: ReadFile gives the
\* same bytes or the same error, and Stat the same mode.
SealPreservesReads ==
    [][(~Sealed /\ Sealed') =>
         \A path \in Probes :
            Stat(heap, RootId, path).err = ErrNone =>
               /\ ReadFile(ro', SealedRoot, path) = ReadFile(heap, RootId, path)
               /\ Stat(ro', SealedRoot, path).err = ErrNone
               /\ Stat(ro', SealedRoot, path).mode = Stat(heap, RootId, path).mode]_vars

(***************************************************************************)
(* Hard links: files are created, linked under further names, opened and   *)
(* written through their names.                                            *)
(***************************************************************************)

NextLink ==
    \/ CallMkdir(<<"/", "a">>, ModePerm)
    \/ \E path \in Paths : CallOpenFile(path, ReadWrite \cup Create, defaultPerms)
    \/ \E h \in HandleIds : CallWrite(h, <<"x">>)
    \/ \E h \in HandleIds : CallWriteAt(h, <<"x">>, 1)
    \/ \E h \in HandleIds : CallCloseAndDrop(h)
    \/ \E oldPath \in Targets : CallSymlink(oldPath, <<"/", "b">>)
    \/ \E oldPath \in Paths, newPath \in {<<"/", "b">>, <<"/", "a", "/", "b">>} : CallLink(oldPath, newPath)
    \/ \E path \in Paths : CallRemove(path)

SpecLink == Init /\ [][NextLink]_vars

\* the handle in slot h is one that OpenFile on the path returns
OpenedOn(h, path) ==
    LET e == FSgetLEntry(heap, RootId, path)
    IN  handles[h].kind = "File" /\ e.err = ErrNone /\ e.id = handles[h].node

\* what a handle's inode holds is what ReadFile of the path returns
ReadsPayloadOf(h, path) == ReadFile(heap, RootId, path) = bytes(heap[handles[h].node])

LinkPaths == {<<"/", "a">>, <<"/", "a", "/", "b">>}

LinkTargets == {<<"/", "b">>, <<"b">>, <<"/", "x">>}

NextSymlink ==
    \/ \E path \in {<<"/", "a">>, <<"/", "b">>} : CallMkdir(path, ModePerm)
    \/ CallOpenFile(<<"/", "b">>, ReadWrite \cup Create, defaultPerms)
    \/ \E h \in HandleIds : CallWrite(h, <<"x">>)
    \/ \E h \in HandleIds : CallCloseAndDrop(h)
    \/ \E oldPath \in LinkTargets, newPath \in LinkPaths : CallSymlink(oldPath, newPath)
    \/ \E path \in {<<"/", "a">>, <<"/", "b">>} : CallRemove(path)

SpecSymlink == Init /\ [][NextSymlink]_vars

\* the path a symlink at newPath with the target oldPath stands for
TargetPath(oldPath, newPath) ==
    IF HasPrefixSlash(oldPath) THEN oldPath ELSE Join(<<SplitDir(joinRoot(newPath)), oldPath>>)

\* the step is a successful Symlink(oldPath, newPath)
SymlinkMade(oldPath, newPath) ==
    LET r == Symlink(heap, RootId, oldPath, newPath, now)
    IN  r.err = ErrNone /\ heap' = Collect(r.nodes, handles) /\ heap' # heap

\* C5 (as claimed): once Symlink(target, link) has succeeded, ReadFile(link)
\* returns what ReadFile of the path the target stands for returns: the same
\* bytes, or the same error (NotExist when there is no such file).
SymlinksAreTransparent ==
    [][\A oldPath \in LinkTargets, newPath \in LinkPaths :
          SymlinkMade(oldPath, newPath) =>
             ReadFile(heap', RootId, newPath) = ReadFile(heap', RootId, TargetPath(oldPath, newPath))]_vars

(***************************************************************************)
(* Path resolution taken one pass of the resolver's loop at a time, in a   *)
(* filesystem with a symlink that can be followed any number of times and  *)
(* in one whose symlinks form cycles.                                      *)
(***************************************************************************)

\* "/s" is a symlink to ".", "/f" a file: "/s/s/f" meets the symlink twice
ChainHeap ==
    LET linked == Symlink(New, RootId, dot, <<"/", "s">>, 0).nodes
    IN  openFile(linked, RootId, <<"/", "f">>, ReadWrite \cup Create, defaultPerms, 0).nodes

\* the path to "/f" through k symlinks
ChainPath(k) ==
    [i \in 1..(2 * k + 2) |-> IF i = 2 * k + 2 THEN "f" ELSE IF i % 2 = 1 THEN "/" ELSE "s"]

\* how many symlinks the chains have: none, few, and as many as redirects or so
ChainLengths == {0, 1, 2, maxRedirects - 2, maxRedirects - 1, maxRedirects, maxRedirects + 1}

\* "/c" points to itself, "/p" to "/q" and "/q" back to "/p"
CycleHeap ==
    LET c == Symlink(New, RootId, <<"/", "c">>, <<"/", "c">>, 0).nodes
        p == Symlink(c, RootId, <<"q">>, <<"/", "p">>, 0).nodes
    IN  Symlink(p, RootId, <<"/", "p">>, <<"/", "q">>, 0).nodes

CyclePaths == {<<"/", "c">>, <<"/", "p">>, <<"/", "q">>, <<"p">>, <<"/", "c", "/", "c">>, <<"/", "p", "/", "x">>}

\* the filesystem holds the chain or the cycles, and a resolution starts
InitResolve ==
    /\ \/ /\ heap = ChainHeap
          /\ \E k \in ChainLengths : query = [path |-> ChainPath(k), symlinks |-> k]
       \/ /\ heap = CycleHeap
          /\ \E path \in CyclePaths : query = [path |-> path, symlinks |-> 0]
    /\ run = start(joinRoot(query.path))
    /\ steps = 0
    /\ met = 0
    /\ handles = [h \in HandleIds |-> NoHandle]
    /\ now = 0
    /\ ro = <<>>
    /\ links = {}
    /\ NoCalls
    /\ whole = heap
    /\ last = <<>>

\* the next name the resolver looks up is that of a symlink
AtSymlink ==
    LET sp == splitOffNamePart(run.r)
        next == getEntry(heap[run.curr], sp.name)
    IN  /\ run.r.path # <<>>
        /\ heap[run.curr].mode \cap modeRead # {}
        /\ ~isEmptyName(sp.name)
        /\ next.err = ErrNone
        /\ heap[next.id].mode \cap ModeSymlink # {}

\* one pass through the loop of resolver.resolve
ResolveStep ==
    /\ ~run.done
    /\ run' = resolveStep(heap, RootId, run)
    /\ steps' = steps + 1
    /\ met' = IF AtSymlink THEN met + 1 ELSE met
    /\ UNCHANGED <<heap, handles, now, ro, links, query, threading, last>>

NextResolve == ResolveStep

SpecResolve == InitResolve /\ [][NextResolve]_vars

\* the passes a resolution among the cycles may take: three for a redirect
StepLimit == 3 * maxRedirects

\* C3: a resolution that runs into a symlink cycle takes a bounded number
\* of passes through the resolver's loop: while it has not returned its
\* next pass takes it further, it never takes more than StepLimit passes,
\* and it returns Invalid, as do the calls that resolve the path.
CyclesEndInvalid ==
    heap = CycleHeap =>
        /\ steps <= StepLimit
        /\ ~run.done => resolveStep(heap, RootId, run) # run
        /\ run.done =>
              /\ run.err = ErrInvalid
              /\ ReadFile(heap, RootId, query.path).err = ErrInvalid
              /\ Stat(heap, RootId, query.path).err = ErrInvalid

\* C3: a resolution has gone round a cycle until the redirects ran out
CycleResolved ==
    /\ heap = CycleHeap
    /\ run.done
    /\ run.err = ErrInvalid
    /\ met = maxRedirects
    /\ steps > maxRedirects

\* C4 (as claimed): every symlink met takes one redirect from the budget of
\* maxRedirects, and a resolution that has to follow a chain of symlinks to
\* a readable file is rejected with Invalid exactly when the chain is longer
\* than maxRedirects.
RedirectBudget ==
    /\ met + run.r.redirectsRemaining = maxRedirects
    /\ heap = ChainHeap /\ run.done =>
          /\ run.err = ErrInvalid <=> query.symlinks > maxRedirects
          /\ query.symlinks <= maxRedirects => run.err = ErrNone /\ heap[run.curr].kind = "inodeRW"

(***************************************************************************)
(* Files: files are created, written from their handles, read back from    *)
(* them, closed and opened again.                                          *)
(***************************************************************************)

NextFile ==
    \/ \E perm \in Perms : CallMkdir(<<"/", "a">>, perm)
    \/ \E path \in Paths : CallCreate(path)
    \/ \E path \in Paths : CallOpen(path)
    \/ \E h \in HandleIds, p \in Payloads : CallWrite(h, p)
    \/ \E h \in HandleIds, str \in Payloads : CallWriteString(h, str)
    \/ \E h \in HandleIds : CallSeek(h, 0, SeekStart)
    \/ \E h \in HandleIds : CallRead(h, 1)
    \/ \E h \in HandleIds : CallClose(h)

SpecFile == Init /\ [][NextFile]_vars

\* the handle in slot h is what Create returned for a fresh file: open to
\* read and write, at position 0, on an inode nothing was written to
FreshlyCreated(h) ==
    /\ handles[h].kind = "File"
    /\ handles[h].opMode = openMode(ReadWrite)
    /\ handles[h].pos = 0
    /\ heap[handles[h].node].len = 0
    /\ heap[handles[h].node].buf = <<>>

\* the step is a Write or a WriteString of s through the handle in slot h
Wrote(h, s) ==
    \E w \in {Write(heap, handles[h], s, now), WriteString(heap, handles[h], s, now)} :
        /\ w.err = ErrNone
        /\ heap' = w.nodes
        /\ handles' = [handles EXCEPT ![h] = w.handle]

\* the three ways to read the file at path back return s: ReadFile and Open
\* with a read to the end once the handle f is closed, and a read to the
\* end from f itself after Seek(0, SeekStart)
ReadsBack(nodes, f, path, s) ==
    LET closed == Close(nodes, f)
        opened == Open(closed.nodes, RootId, path)
        sought == Seek(nodes, f, 0, SeekStart)
    IN  /\ closed.err = ErrNone
        /\ ReadFile(closed.nodes, RootId, path) = [err |-> ErrNone, data |-> s]
        /\ opened.err = ErrNone
        /\ ReadAll(closed.nodes, opened.handle).err = ErrNone
        /\ ReadAll(closed.nodes, opened.handle).out = s
        /\ sought.err = ErrNone
        /\ ReadAll(sought.nodes, sought.handle).err = ErrNone
        /\ ReadAll(sought.nodes, sought.handle).out = s

\* C6: when s is written (Write or WriteString) from position 0 through the
\* handle Create returned for a fresh file at a path, then after Close both
\* ReadFile of the path and Open of the path with a read to the end return
\* exactly s, and so does a read to the end from the writing handle after
\* Seek(0, SeekStart); Close itself changes no file.
WriteReadRoundTrip ==
    [][/\ \A h \in HandleIds, s \in Payloads, path \in Paths :
            FreshlyCreated(h) /\ OpenedOn(h, path) /\ Wrote(h, s) =>
                ReadsBack(heap', handles'[h], path, s)
       /\ \A h \in HandleIds :
            handles[h].kind = "File" /\ handles[h].opMode # opClose /\ handles'[h].opMode = opClose =>
                heap' = heap]_vars

\* C6: a file holds two bytes written through the handle Create returned,
\* the handle is closed, and the file reads back as those bytes
WrittenClosedAndRead ==
    \E h \in HandleIds, path \in Paths :
        /\ OpenedOn(h, path)
        /\ handles[h].opMode = opClose
        /\ Len(bytes(heap[handles[h].node]).data) = MaxLen
        /\ ReadsBack(heap, [handles[h] EXCEPT !.opMode = openMode(ReadWrite)], path,
                     bytes(heap[handles[h].node]).data)

(***************************************************************************)
(* The tree: every facade operation that adds, moves or removes a name.    *)
(***************************************************************************)

\* what the symlinks of the tree point to: the directory they are in, the root
TreeTargets == {<<".">>, <<"/">>}

NextTree ==
    \/ \E path \in Paths : CallMkdir(path, ModePerm)
    \/ CallMkdirAll(<<"/", "a", "/", "b">>, ModePerm)
    \/ \E path \in Paths : CallCreate(path)
    \/ \E path \in Paths : CallOpenFile(path, ReadWrite \cup Create \cup Excl, defaultPerms)
    \/ \E h \in HandleIds : CallCloseAndDrop(h)
    \/ \E oldPath \in Paths, newPath \in Paths : CallLink(oldPath, newPath)
    \/ \E oldPath \in TreeTargets, newPath \in Paths : CallSymlink(oldPath, newPath)
    \/ \E oldPath \in Paths, newPath \in Paths : CallRename(oldPath, newPath)
    \/ \E path \in Paths : CallRemove(path)
    \/ \E path \in Paths : CallRemoveAll(path)

SpecTree == Init /\ [][NextTree]_vars

\* C7: whatever sequence of Mkdir, MkdirAll, Create, OpenFile, Link,
\* Symlink, Rename, Remove and RemoveAll has been called, no directory holds
\* two entries with the same name.
UniqueNames ==
    \A i \in NodeIds :
        IsDnode(heap[i]) =>
            \A j, k \in 1..Len(heap[i].entries) :
                j # k => heap[i].entries[j].name # heap[i].entries[k].name

\* C7: a directory holds two names, and each of the calls that add a name
\* is turned down for a name that is taken
NameTaken ==
    \E path \in Paths :
        /\ Len(heap[RootId].entries) = 2
        /\ mkdir(heap, RootId, path, ModePerm, now).err = ErrExist
        /\ Link(heap, RootId, path, path, now).err = ErrExist
        /\ Symlink(heap, RootId, path, path, now).err = ErrExist
        /\ Rename(heap, RootId, path, path, now).err = ErrExist
        /\ openFile(heap, RootId, path, ReadWrite \cup Create \cup Excl, defaultPerms, now).err = ErrExist

(***************************************************************************)
(* Threads on the facade: one thread renames a directory to and fro while  *)
(* another reads the tree.  A call is taken step by step: its lock, the    *)
(* steps of its body, its return.                                          *)
(***************************************************************************)

\* "/a" is a directory, "/a/l" a symlink to "/b"
RenameHeap ==
    Symlink(mkdir(New, RootId, <<"/", "a">>, ModePerm, 0).nodes, RootId,
            <<"/", "b">>, <<"/", "a", "/", "l">>, 0).nodes

\* the paths read, and the names the directory goes by
ReadPaths == {<<"/">>, <<"/", "b">>, <<"/", "a", "/", "l">>}

RenamePaths == {<<"/", "a">>, <<"/", "b">>}

\* the reads that take the FS-wide lock
LockedReads == {"ReadDir", "ReadFile", "Stat", "LStat", "Readlink"}

\* what a read of the facade returns for a path (of ReadDir, the names)
ReadCall(op, nodes, path) ==
    IF op = "ReadDir"
    THEN With(ReadDir(nodes, RootId, path), LAMBDA dir :
             [err |-> dir.err, names |-> [i \in 1..Len(dir.entries) |-> dir.entries[i].name]])
    ELSE IF op = "ReadFile" THEN ReadFile(nodes, RootId, path)
    ELSE IF op = "Stat" THEN Stat(nodes, RootId, path)
    ELSE IF op = "LStat" THEN LStat(nodes, RootId, path)
    ELSE IF op = "Readlink" THEN Readlink(nodes, RootId, path)
    ELSE Open(nodes, RootId, path)

InitRename ==
    /\ heap = RenameHeap
    /\ handles = [h \in HandleIds |-> NoHandle]
    /\ now = 0
    /\ ro = <<>>
    /\ links = {}
    /\ run = start(<<>>)
    /\ query = [path |-> <<>>, symlinks |-> 0]
    /\ steps = 0
    /\ met = 0
    /\ NoCalls
    /\ whole = heap
    /\ last = <<>>

\* what Read or ReadAt (into a buffer of MaxLen bytes, ReadAt from offset 0)
\* returns through a handle
HandleRead(op, nodes, h) ==
    IF op = "Read"
    THEN With(Read(nodes, h, MaxLen), LAMBDA r : [err |-> r.err, out |-> r.out])
    ELSE With(ReadAt(nodes, h, MaxLen, 0), LAMBDA r : [err |-> r.err, out |-> r.out])

\* the reads of the handles
HandleReads == {"Read", "ReadAt"}

\* what the read a thread is in returns for the nodes and handles given
ReadResult(call, nodes, hs) ==
    IF call.op \in HandleReads THEN HandleRead(call.op, nodes, hs[call.h])
    ELSE ReadCall(call.op, nodes, call.path)

\* the calls once a call has taken effect and left the nodes `nodes`: a read
\* that is under way may return what it returns for them
Noted(cs, nodes, hs) ==
    [u \in Threads |->
        IF cs[u].pc \in {"body", "return"} /\ cs[u].op \in LockedReads \cup HandleReads \cup {"Open"}
        THEN [cs[u] EXCEPT !.seen = @ \cup {ReadResult(cs[u], nodes, hs)}]
        ELSE cs[u]]

\* thread t calls ReadDir, ReadFile, Stat, LStat, Readlink or Open: the call
\* takes the FS-wide lock the way the method does
BeginRead(t, op, path) ==
    /\ calls[t].pc = "idle"
    /\ calls[t].left > 0
    /\ CanAcquire(fsmu, FSLockOf(op))
    /\ fsmu' = Acquire(fsmu, FSLockOf(op), t)
    /\ calls' = [calls EXCEPT ![t] = [@ EXCEPT !.op = op, !.pc = "body", !.path = path,
                                              !.left = @ - 1,
                                              !.run = start(joinRoot(path)),
                                              !.seen = {ReadCall(op, whole, path)}]]
    /\ UNCHANGED <<heap, handles, now, ro, links, resolving, mus, whole, last>>

\* ReadFile can take the lock of the inode it reads (inodeRW.bytes)
BytesReadable(call) ==
    call.op = "ReadFile" /\ FSgetEntry(heap, RootId, call.path).err = ErrNone =>
        CanAcquire(mus[FSgetEntry(heap, RootId, call.path).id], InodeLockOf("bytes"))

\* the body of ReadDir, ReadFile, Stat, LStat or Readlink
ReadBody(t) ==
    /\ calls[t].pc = "body"
    /\ calls[t].op \in LockedReads
    /\ BytesReadable(calls[t])
    /\ calls' = [calls EXCEPT ![t].res = ReadCall(calls[t].op, heap, calls[t].path),
                              ![t].pc = "return"]
    /\ UNCHANGED <<heap, handles, now, ro, links, resolving, fsmu, mus, whole, last>>

\* fsRO.Open: one pass through the loop of resolver.resolve
OpenResolve(t) ==
    /\ calls[t].pc = "body"
    /\ calls[t].op = "Open"
    /\ ~calls[t].run.done
    /\ calls' = [calls EXCEPT ![t].run = resolveStep(heap, RootId, @)]
    /\ UNCHANGED <<heap, handles, now, ro, links, resolving, fsmu, mus, whole, last>>

\* fsRO.Open: de.open on the node the path resolved to
OpenOpen(t) ==
    /\ calls[t].pc = "body"
    /\ calls[t].op = "Open"
    /\ calls[t].run.done
    /\ calls' = [calls EXCEPT
                    ![t].res = IF calls[t].run.err # ErrNone
                               THEN [err |-> calls[t].run.err, handle |-> NoHandle]
                               ELSE open(heap, calls[t].run.curr, SplitFile(calls[t].path),
                                         opRead \cup opSeek),
                    ![t].pc = "return"]
    /\ UNCHANGED <<heap, handles, now, ro, links, resolving, fsmu, mus, whole, last>>

\* a call of the facade returns: its deferred Unlock or RUnlock
Return(t) ==
    /\ calls[t].pc = "return"
    /\ calls[t].op \in LockedReads \cup {"Open", "Rename", "Seal"}
    /\ fsmu' = Release(fsmu, FSLockOf(calls[t].op), t)
    /\ calls' = [calls EXCEPT ![t] = [Idle EXCEPT !.left = calls[t].left]]
    /\ UNCHANGED <<heap, handles, now, ro, links, resolving, mus, whole, last>>

\* thread t calls Rename: f.mu.Lock()
BeginRename(t, oldPath, newPath) ==
    /\ calls[t].pc = "idle"
    /\ calls[t].left > 0
    /\ CanAcquire(fsmu, FSLockOf("Rename"))
    /\ fsmu' = Acquire(fsmu, FSLockOf("Rename"), t)
    /\ calls' = [calls EXCEPT ![t] = [@ EXCEPT !.op = "Rename", !.pc = "remove", !.left = @ - 1,
                                              !.path = oldPath, !.newPath = newPath]]
    /\ UNCHANGED <<heap, handles, now, ro, links, resolving, mus, whole, last>>

\* FS.Rename: the checks and od.removeEntry
RenameRemoveEntry(t) ==
    /\ calls[t].pc = "remove"
    /\ heap' = RenameRemoved(heap, RootId, calls[t].path, calls[t].newPath, now).nodes
    /\ IF RenameRemoved(heap, RootId, calls[t].path, calls[t].newPath, now).err = ErrNone
       THEN /\ whole' = whole
            /\ calls' = [calls EXCEPT
                  ![t].pc = "set",
                  ![t].d = RenameRemoved(heap, RootId, calls[t].path, calls[t].newPath, now).nd,
                  ![t].c = RenameRemoved(heap, RootId, calls[t].path, calls[t].newPath, now).c]
       ELSE /\ whole' = Rename(whole, RootId, calls[t].path, calls[t].newPath, now).nodes
            /\ calls' = Noted([calls EXCEPT
                  ![t].pc = "return",
                  ![t].res = RenameRemoved(heap, RootId, calls[t].path, calls[t].newPath, now).err],
                  whole', handles)
    /\ UNCHANGED <<handles, now, ro, links, resolving, fsmu, mus, last>>

\* FS.Rename: nd.setEntry, with which the call has taken effect
RenameSetEntry(t) ==
    /\ calls[t].pc = "set"
    /\ heap' = RenameSet(heap, calls[t].d, calls[t].c, calls[t].newPath, now).nodes
    /\ whole' = Rename(whole, RootId, calls[t].path, calls[t].newPath, now).nodes
    /\ calls' = Noted([calls EXCEPT
                          ![t].pc = "return",
                          ![t].res = RenameSet(heap, calls[t].d, calls[t].c, calls[t].newPath, now).err],
                      whole', handles)
    /\ UNCHANGED <<handles, now, ro, links, resolving, fsmu, mus, last>>

NextRename ==
    \/ \E t \in Threads, op \in LockedReads \cup {"Open"}, path \in ReadPaths : BeginRead(t, op, path)
    \/ \E t \in Threads : ReadBody(t)
    \/ \E t \in Threads : OpenResolve(t)
    \/ \E t \in Threads : OpenOpen(t)
    \/ \E t \in Threads, oldPath \in RenamePaths, newPath \in RenamePaths : BeginRename(t, oldPath, newPath)
    \/ \E t \in Threads : RenameRemoveEntry(t)
    \/ \E t \in Threads : RenameSetEntry(t)
    \/ \E t \in Threads : Return(t)

SpecRename == InitRename /\ [][NextRename]_vars

\* C8 (as claimed): what a ReadDir, ReadFile, Stat, LStat, Readlink or Open
\* returns is what it returns for the tree as it was when the read was
\* called or as one of the calls that took effect while it ran left it, each
\* taken as a whole: never for a tree in between.
ReadsSeeWholeCalls ==
    \A t \in Threads :
        calls[t].pc = "return" /\ calls[t].op \in LockedReads \cup {"Open"} =>
            calls[t].res \in calls[t].seen

\* the same for the reads that take the FS-wide lock
LockedReadsSeeWholeCalls ==
    \A t \in Threads :
        calls[t].pc = "return" /\ calls[t].op \in LockedReads =>
            calls[t].res \in calls[t].seen

(***************************************************************************)
(* Threads on handles: two files, two handles on the first and one on the  *)
(* second; the threads read and write through the handles and copy one     *)
(* file to another with WriteTo, while ReadFile and Seal go through the    *)
(* FS-wide lock.  The tree is flat: the root holds files only.             *)
(***************************************************************************)

FirstFile == <<"/", "f">>

SecondFile == <<"/", "g">>

\* "/f" is created and "a" written to it, "/g" is created and "b" written
FirstCreated == CreateFile(New, RootId, FirstFile, 0)

FirstWritten == Write(FirstCreated.nodes, FirstCreated.handle, <<"a">>, 0)

SecondCreated == CreateFile(FirstWritten.nodes, RootId, SecondFile, 0)

SecondWritten == Write(SecondCreated.nodes, SecondCreated.handle, <<"b">>, 0)

FilesHeap == SecondWritten.nodes

\* handles 1 and 2 are open on "/f", handle 3 on "/g", all at position 0
FileHandleIds == {1, 2, 3}

FileHandles ==
    [h \in FileHandleIds |-> IF h = 3 THEN SecondCreated.handle ELSE FirstCreated.handle]

\* the handles a thread calls methods of
Own(t) == IF t = 1 THEN {1} ELSE {2, 3}

\* what the threads write
Written == <<"x", "y">>

InitFiles ==
    /\ heap = FilesHeap
    /\ handles = FileHandles
    /\ now = 0
    /\ ro = <<>>
    /\ links = {}
    /\ run = start(<<>>)
    /\ query = [path |-> <<>>, symlinks |-> 0]
    /\ steps = 0
    /\ met = 0
    /\ NoCalls
    /\ whole = heap
    /\ last = <<>>

\* the lock of the inode of the handle in slot h
InodeOf(h) == handles[h].node

\* thread t calls Read, ReadAt, Write or WriteTo (to the handle w) on its
\* handle h: the method locks the inode
BeginFile(t, op, h, w) ==
    /\ calls[t].pc = "idle"
    /\ calls[t].left > 0
    /\ CanAcquire(mus[InodeOf(h)], InodeLockOf(op))
    /\ mus' = [mus EXCEPT ![InodeOf(h)] = Acquire(@, InodeLockOf(op), t)]
    /\ calls' = [calls EXCEPT ![t] = [@ EXCEPT !.op = op, !.pc = "body", !.h = h, !.w = w,
                                              !.p = Written, !.left = @ - 1,
                                              !.seen = IF op \in HandleReads
                                                       THEN {HandleRead(op, whole, handles[h])}
                                                       ELSE {}]]
    /\ UNCHANGED <<heap, handles, now, ro, links, resolving, fsmu, whole, last>>

\* File.Read and File.ReadAt: the body
FileReadBody(t) ==
    /\ calls[t].pc = "body"
    /\ calls[t].op \in HandleReads
    /\ calls' = [calls EXCEPT ![t].res = HandleRead(calls[t].op, heap, handles[calls[t].h]),
                              ![t].pc = "return"]
    /\ handles' = [handles EXCEPT ![calls[t].h] =
                      IF calls[t].op = "Read" THEN Read(heap, @, MaxLen).handle ELSE @]
    /\ UNCHANGED <<heap, now, ro, links, resolving, fsmu, mus, whole, last>>

\* File.Write: validTo and f.grow
FileWriteGrow(t) ==
    /\ calls[t].pc = "body"
    /\ calls[t].op = "Write"
    /\ heap' = WriteGrown(heap, handles[calls[t].h], calls[t].p).nodes
    /\ calls' = [calls EXCEPT
                    ![t].res = WriteGrown(heap, handles[calls[t].h], calls[t].p).err,
                    ![t].pc = IF WriteGrown(heap, handles[calls[t].h], calls[t].p).err = ErrNone
                              THEN "copy" ELSE "return"]
    /\ UNCHANGED <<handles, now, ro, links, resolving, fsmu, mus, whole, last>>

\* File.Write: the copy, with which the write has taken effect
FileWriteCopy(t) ==
    /\ calls[t].pc = "copy"
    /\ heap' = WriteCopied(heap, handles[calls[t].h], calls[t].p, now).nodes
    /\ handles' = [handles EXCEPT ![calls[t].h] = WriteCopied(heap, @, calls[t].p, now).handle]
    /\ whole' = Write(whole, handles[calls[t].h], calls[t].p, now).nodes
    /\ calls' = Noted([calls EXCEPT ![t].pc = "return"], whole', handles')
    /\ UNCHANGED <<now, ro, links, resolving, fsmu, mus, last>>

\* File.WriteTo: validTo and the copy of the bytes from f.pos on
FileWriteToCopy(t) ==
    /\ calls[t].pc = "body"
    /\ calls[t].op = "WriteTo"
    /\ calls' = [calls EXCEPT
                    ![t].p = WriteToData(heap, handles[calls[t].h]).data,
                    ![t].res = WriteToData(heap, handles[calls[t].h]).err,
                    ![t].pc = IF WriteToData(heap, handles[calls[t].h]).err = ErrNone
                              THEN "lock" ELSE "return"]
    /\ UNCHANGED <<heap, handles, now, ro, links, resolving, fsmu, mus, whole, last>>

\* File.WriteTo: w.Write locks the inode of w
FileWriteToLock(t) ==
    /\ calls[t].pc = "lock"
    /\ CanAcquire(mus[InodeOf(calls[t].w)], InodeLockOf("Write"))
    /\ mus' = [mus EXCEPT ![InodeOf(calls[t].w)] = Acquire(@, InodeLockOf("Write"), t)]
    /\ calls' = [calls EXCEPT ![t].pc = "write"]
    /\ UNCHANGED <<heap, handles, now, ro, links, resolving, fsmu, whole, last>>

\* File.WriteTo: w.Write writes and unlocks, and f.pos moves on
FileWriteToWrite(t) ==
    /\ calls[t].pc = "write"
    /\ heap' = Write(heap, handles[calls[t].w], calls[t].p, now).nodes
    /\ handles' = [handles EXCEPT
                      ![calls[t].w] = Write(heap, @, calls[t].p, now).handle,
                      ![calls[t].h] = WriteToDone(@, Write(heap, handles[calls[t].w], calls[t].p, now).handle.pos
                                                       - handles[calls[t].w].pos)]
    /\ mus' = [mus EXCEPT ![InodeOf(calls[t].w)] = Release(@, InodeLockOf("Write"), t)]
    /\ whole' = Write(whole, handles[calls[t].w], calls[t].p, now).nodes
    /\ calls' = Noted([calls EXCEPT
                          ![t].res = Write(heap, handles[calls[t].w], calls[t].p, now).err,
                          ![t].pc = "return"],
                      whole', handles')
    /\ UNCHANGED <<now, ro, links, resolving, fsmu, last>>

\* a method of File returns: its deferred Unlock or RUnlock
ReturnFile(t) ==
    /\ calls[t].pc = "return"
    /\ calls[t].op \in HandleReads \cup {"Write", "WriteTo"}
    /\ mus' = [mus EXCEPT ![InodeOf(calls[t].h)] = Release(@, InodeLockOf(calls[t].op), t)]
    /\ calls' = [calls EXCEPT ![t] = [Idle EXCEPT !.left = calls[t].left]]
    /\ UNCHANGED <<heap, handles, now, ro, links, resolving, fsmu, whole, last>>

\* thread t calls Seal: f.mu.Lock()
BeginSeal(t) ==
    /\ calls[t].pc = "idle"
    /\ calls[t].left > 0
    /\ ~Sealed
    /\ CanAcquire(fsmu, FSLockOf("Seal"))
    /\ fsmu' = Acquire(fsmu, FSLockOf("Seal"), t)
    /\ calls' = [calls EXCEPT ![t] = [@ EXCEPT !.op = "Seal", !.pc = "root", !.left = @ - 1]]
    /\ UNCHANGED <<heap, handles, now, ro, links, resolving, mus, whole, last>>

\* dnodeRW.seal of the root: d.mu.Lock()
SealRoot(t) ==
    /\ calls[t].pc = "root"
    /\ CanAcquire(mus[RootId], "Lock")
    /\ mus' = [mus EXCEPT ![RootId] = Acquire(@, "Lock", t)]
    /\ calls' = [calls EXCEPT ![t].pc = "entries", ![t].c = 1]
    /\ UNCHANGED <<heap, handles, now, ro, links, resolving, fsmu, whole, last>>

\* dnodeRW.seal of the root: e.seal() of its next entry, which locks the
\* node, copies and blanks it, and unlocks
SealEntry(t) ==
    /\ calls[t].pc = "entries"
    /\ calls[t].c <= Len(heap[RootId].entries)
    /\ CanAcquire(mus[heap[RootId].entries[calls[t].c].id], InodeLockOf("seal"))
    /\ heap' = seal(heap, heap[RootId].entries[calls[t].c].id, <<calls[t].c>>).rw
    /\ ro' = seal(heap, heap[RootId].entries[calls[t].c].id, <<calls[t].c>>).ro @@ ro
    /\ whole' = [whole EXCEPT ![heap[RootId].entries[calls[t].c].id] = heap'[heap[RootId].entries[calls[t].c].id]]
    /\ calls' = Noted([calls EXCEPT ![t].c = @ + 1], whole', handles)
    /\ UNCHANGED <<handles, now, links, resolving, fsmu, mus, last>>

\* dnodeRW.seal of the root: the root blanked, its copy returned, d.mu.Unlock()
SealDone(t) ==
    /\ calls[t].pc = "entries"
    /\ calls[t].c > Len(heap[RootId].entries)
    /\ heap' = [heap EXCEPT ![RootId] = Blank(@)]
    /\ ro' = ro @@ (SealedRoot :> SealedDnode(heap[RootId], SealedRoot))
    /\ whole' = [whole EXCEPT ![RootId] = heap'[RootId]]
    /\ mus' = [mus EXCEPT ![RootId] = Release(@, "Lock", t)]
    /\ calls' = Noted([calls EXCEPT ![t].pc = "return"], whole', handles)
    /\ UNCHANGED <<handles, now, links, resolving, fsmu, last>>

\* what a thread does next in the call it is in
Continue(t) ==
    \/ FileReadBody(t)
    \/ FileWriteGrow(t)
    \/ FileWriteCopy(t)
    \/ FileWriteToCopy(t)
    \/ FileWriteToLock(t)
    \/ FileWriteToWrite(t)
    \/ ReturnFile(t)
    \/ ReadBody(t)
    \/ SealRoot(t)
    \/ SealEntry(t)
    \/ SealDone(t)
    \/ Return(t)

NextFiles ==
    \/ \E t \in Threads, op \in HandleReads \cup {"Write"} : \E h \in Own(t) : BeginFile(t, op, h, h)
    \/ \E t \in Threads : \E h \in Own(t) : \E w \in FileHandleIds \ {h} : BeginFile(t, "WriteTo", h, w)
    \/ \E t \in Threads : BeginRead(t, "ReadFile", FirstFile)
    \/ \E t \in Threads : BeginSeal(t)
    \/ \E t \in Threads : Continue(t)

SpecFiles == InitFiles /\ [][NextFiles]_vars

\* a thread is in Write, or in the Write of WriteTo, on the inode i
Writing(i) ==
    \E t \in Threads :
        \/ calls[t].op = "Write" /\ calls[t].pc \in {"body", "copy"} /\ InodeOf(calls[t].h) = i
        \/ calls[t].op = "WriteTo" /\ calls[t].pc = "write" /\ InodeOf(calls[t].w) = i

\* C9: a Read or ReadAt through a handle returns what it returns for the
\* file as the whole writes made until it was called, or until one that took
\* effect while it ran, leave it, never for a file with a write applied in
\* part; and when no write is under way on an inode it holds what the
\* writes made to it leave when applied one after the other, each as a
\* whole.
HandleOpsAtomic ==
    /\ \A t \in Threads :
          calls[t].pc = "return" /\ calls[t].op \in HandleReads => calls[t].res \in calls[t].seen
    /\ \A i \in NodeIds :
          IsInode(heap[i]) /\ ~Writing(i) => Data(heap[i]) = Data(whole[i])

\* C9: thread 1, in its first call, has read through its handle what thread
\* 2 wrote through another handle on the same inode
ReadWhatOtherHandleWrote ==
    /\ calls[1].pc = "return"
    /\ calls[1].op \in HandleReads
    /\ calls[1].left = MaxCalls - 1
    /\ calls[1].res = [err |-> ErrNone, out |-> Written]
    /\ calls[2].left < MaxCalls

\* the threads that hold a mutex
Holders(mu) == mu.readers \cup (IF mu.writer = 0 THEN {} ELSE {mu.writer})

\* the threads that hold the lock thread t has to take for its next step,
\* when it cannot take it (none when t can go on, or is in no call)
WaitsFor(t) ==
    IF calls[t].pc = "lock" /\ ~CanAcquire(mus[InodeOf(calls[t].w)], InodeLockOf("Write"))
    THEN Holders(mus[InodeOf(calls[t].w)])
    ELSE IF calls[t].pc = "root" /\ ~CanAcquire(mus[RootId], "Lock")
    THEN Holders(mus[RootId])
    ELSE IF /\ calls[t].pc = "entries"
            /\ calls[t].c <= Len(heap[RootId].entries)
            /\ ~CanAcquire(mus[heap[RootId].entries[calls[t].c].id], InodeLockOf("seal"))
    THEN Holders(mus[heap[RootId].entries[calls[t].c].id])
    ELSE IF calls[t].pc = "body" /\ calls[t].op = "ReadFile" /\ ~BytesReadable(calls[t])
    THEN Holders(mus[FSgetEntry(heap, RootId, calls[t].path).id])
    ELSE {}

\* the threads among ts that wait for a lock held by a thread among ts:
\* left to themselves none of them takes another step
RECURSIVE WaitingForEver(_)
WaitingForEver(ts) ==
    IF {t \in ts : WaitsFor(t) \cap ts # {}} = ts THEN ts
    ELSE WaitingForEver({t \in ts : WaitsFor(t) \cap ts # {}})

\* C10 (as claimed): whatever calls of the facade and of the handles the
\* threads are in, none of them waits for a lock that is never given up:
\* every call can be taken to its return.
NoCallWaitsForEver == WaitingForEver(Threads) = {}

(***************************************************************************)
(* One handle: the file "/f" holds a byte and a rune of two bytes, and a   *)
(* handle opened on it read-only, write-only or for both is taken through  *)
(* every method of File.  last records the latest call: the slot, the      *)
(* method, its arguments, the error and the bytes it returned, and a bit   *)
(* that changes with every call.                                           *)
(***************************************************************************)

\* files hold at most MaxSize bytes where one handle is followed
MaxSize == 3

HandleFile == <<"/", "f">>

HandleCreated == CreateFile(New, RootId, HandleFile, 0)

HandleHeap == Write(HandleCreated.nodes, HandleCreated.handle, <<"a", lead, cont>>, 0).nodes

\* the modes the handle is opened with
HandleModes == {ReadOnly, WriteOnly, ReadWrite}

NoCallYet == [h |-> 0, op |-> "none", arg |-> <<>>, err |-> ErrNone, out |-> <<>>, bit |-> 0]

InitHandle ==
    /\ heap = HandleHeap
    /\ \E mode \in HandleModes :
          handles = [h \in HandleIds |->
                        IF h = 1 THEN openFile(HandleHeap, RootId, HandleFile, mode, defaultPerms, 0).handle
                        ELSE NoHandle]
    /\ now = 1
    /\ ro = <<>>
    /\ links = {}
    /\ run = start(<<>>)
    /\ query = [path |-> <<>>, symlinks |-> 0]
    /\ steps = 0
    /\ met = 0
    /\ NoCalls
    /\ whole = heap
    /\ last = NoCallYet

\* the method op of File is called with arg on the handle in slot h and
\* returns r
FileCall(h, op, arg, r) ==
    /\ handles[h].kind = "File"
    /\ r.handle.pos <= MaxSize + 1
    /\ r.nodes[handles[h].node].len <= MaxSize
    /\ heap' = r.nodes
    /\ handles' = [handles EXCEPT ![h] = r.handle]
    /\ last' = [h |-> h, op |-> op, arg |-> arg, err |-> r.err, out |-> r.out, bit |-> 1 - last.bit]
    /\ UNCHANGED <<now, ro, links, resolving, threading>>

FileRead(h, k) == FileCall(h, "Read", <<k>>, Read(heap, handles[h], k))

FileReadAt(h, k, off) == FileCall(h, "ReadAt", <<k, off>>, ReadAt(heap, handles[h], k, off))

FileReadByte(h) == FileCall(h, "ReadByte", <<>>, ReadByte(heap, handles[h]))

FileUnreadByte(h) == FileCall(h, "UnreadByte", <<>>, UnreadByte(heap, handles[h]))

FileReadRune(h) == FileCall(h, "ReadRune", <<>>, ReadRune(heap, handles[h]))

FileUnreadRune(h) == FileCall(h, "UnreadRune", <<>>, UnreadRune(heap, handles[h]))

FileWriteTo(h, taken) ==
    FileCall(h, "WriteTo", <<taken>>, WriteTo(heap, handles[h], taken, ErrInvalid))

FileSeek(h, offset, whence) ==
    FileCall(h, "Seek", <<offset, whence>>, Seek(heap, handles[h], offset, whence))

FileWrite(h, p) == FileCall(h, "Write", p, Write(heap, handles[h], p, now))

FileWriteAt(h, p, off) ==
    FileCall(h, "WriteAt", <<p, off>>, WriteAt(heap, handles[h], p, off, now))

FileWriteString(h, str) ==
    FileCall(h, "WriteString", str, WriteString(heap, handles[h], str, now))

FileWriteByte(h, c) == FileCall(h, "WriteByte", <<c>>, WriteByte(heap, handles[h], c, now))

FileWriteRune(h, r) == FileCall(h, "WriteRune", r, WriteRune(heap, handles[h], r, now))

FileReadFrom(h, src) == FileCall(h, "ReadFrom", src, ReadFrom(heap, handles[h], src))

FileClose(h) == FileCall(h, "Close", <<>>, Close(heap, handles[h]))

\* FS.Open of the file, once the handle that was held is closed
FileOpen(h) ==
    LET r == Open(heap, RootId, HandleFile)
    IN  /\ IsFree(h)
        /\ handles' = IF r.err = ErrNone THEN [handles EXCEPT ![h] = r.handle] ELSE handles
        /\ last' = [h |-> 0, op |-> "Open", arg |-> <<>>, err |-> r.err, out |-> <<>>, bit |-> 1 - last.bit]
        /\ UNCHANGED <<heap, now, ro, links, resolving, threading>>

\* the offsets Seek is called with, and the values of whence (3 is none of
\* io.SeekStart, io.SeekCurrent, io.SeekEnd)
Offsets == {-2, -1, 0, 1}

Whences == {SeekStart, SeekCurrent, SeekEnd, 3}

NextHandle ==
    \E h \in HandleIds :
        \/ \E k \in {1, 2} : FileRead(h, k)
        \/ \E off \in {0, 1} : FileReadAt(h, 1, off)
        \/ FileReadByte(h)
        \/ FileUnreadByte(h)
        \/ FileReadRune(h)
        \/ FileUnreadRune(h)
        \/ \E taken \in {0, MaxSize} : FileWriteTo(h, taken)
        \/ \E offset \in Offsets, whence \in Whences : FileSeek(h, offset, whence)
        \/ FileWrite(h, <<"a">>)
        \/ \E off \in {0, 2} : FileWriteAt(h, <<cont>>, off)
        \/ FileWriteString(h, <<lead, cont>>)
        \/ FileWriteByte(h, lead)
        \/ FileWriteRune(h, <<lead, cont>>)
        \/ \E src \in {<<>>, <<"a">>} : FileReadFrom(h, src)
        \/ FileClose(h)
        \/ FileOpen(h)

SpecHandle == InitHandle /\ [][NextHandle]_vars

\* a call was made on the handle in slot h with this step
Called(h) == last' # last /\ last'.h = h

\* C11: once Close has returned on a handle, every call of a method on the
\* handle (Read, ReadAt, ReadByte, UnreadByte, ReadRune, UnreadRune, WriteTo,
\* Seek, Write, WriteAt, WriteString, WriteByte, WriteRune, ReadFrom, Close)
\* returns Closed, and leaves the file and the handle as they were.
ClosedIsAbsorbing ==
    [][\A h \in HandleIds :
          (handles[h].kind = "File" /\ handles[h].opMode = opClose /\ Called(h)) =>
              /\ last'.err = ErrClosed
              /\ heap' = heap
              /\ handles' = handles]_vars

\* C11: a call of a method that writes has returned Closed on a handle
\* that was closed, and the file still holds its bytes
WriteAfterClose ==
    /\ last.op \in {"Write", "WriteAt", "WriteString", "WriteByte", "WriteRune", "ReadFrom"}
    /\ last.err = ErrClosed
    /\ handles[last.h].opMode = opClose
    /\ heap[handles[last.h].node].len > 0

\* the handle in slot h can read and seek
ReadsAndSeeks(h) == handles[h].kind = "File" /\ (opRead \cup opSeek) \subseteq handles[h].opMode

\* C12: on a handle opened to read and seek that is not at the end of the
\* file ReadByte returns the byte at the cursor; when UnreadByte is called
\* next it succeeds, a ReadByte after it returns the same byte and leaves
\* the cursor where the first ReadByte left it, and a second UnreadByte
\* after it returns Invalid and leaves the cursor where it is.
ReadByteUnreadByteReadByte ==
    [][\A h \in HandleIds :
          /\ (ReadsAndSeeks(h) /\ handles[h].pos < heap[handles[h].node].len
                /\ Called(h) /\ last'.op = "ReadByte") =>
                /\ last'.err = ErrNone
                /\ last'.out = <<Data(heap[handles[h].node])[handles[h].pos + 1]>>
                /\ handles'[h].pos = handles[h].pos + 1
          /\ (ReadsAndSeeks(h) /\ last.h = h /\ last.op = "ReadByte" /\ last.err = ErrNone
                /\ Called(h) /\ last'.op = "UnreadByte") =>
                /\ last'.err = ErrNone
                /\ ReadByte(heap', handles'[h]).err = ErrNone
                /\ ReadByte(heap', handles'[h]).out = last.out
                /\ ReadByte(heap', handles'[h]).handle.pos = handles[h].pos
                /\ UnreadByte(heap', handles'[h]).err = ErrInvalid
                /\ UnreadByte(heap', handles'[h]).handle.pos = handles'[h].pos]_vars

\* C12: UnreadByte has succeeded on a handle that had read the second byte
\* of the file
ByteUnread ==
    /\ last.op = "UnreadByte"
    /\ last.err = ErrNone
    /\ ReadsAndSeeks(last.h)
    /\ handles[last.h].pos = 1

\* the methods after which the claim has an unread fail
NonReads ==
    {"Read", "ReadAt", "WriteTo", "Seek", "Write", "WriteAt", "WriteString", "WriteByte",
     "WriteRune", "ReadFrom", "UnreadByte", "UnreadRune"}

\* the read that an unread takes back
ReadOf(op) == IF op = "UnreadByte" THEN "ReadByte" ELSE "ReadRune"

\* C13 (as claimed): an UnreadByte succeeds only when the call before it on
\* the handle was a successful ReadByte, an UnreadRune only when it was a
\* successful ReadRune; called on an open handle that can read and seek
\* right after Read, ReadAt, WriteTo, Seek, Write, WriteAt, WriteString,
\* WriteByte, WriteRune, ReadFrom or an unread, they return Invalid.
UnreadsFollowReads ==
    [][\A h \in HandleIds :
          (Called(h) /\ last'.op \in {"UnreadByte", "UnreadRune"}) =>
              /\ last'.err = ErrNone =>
                    (last.h = h /\ last.op = ReadOf(last'.op) /\ last.err = ErrNone)
              /\ (ReadsAndSeeks(h) /\ last.h = h /\ last.op \in NonReads) =>
                    last'.err = ErrInvalid]_vars

\* the position a Seek with these arguments asks for on the handle in slot h
Sought(h, offset, whence) ==
    IF whence = SeekStart THEN offset
    ELSE IF whence = SeekCurrent THEN handles[h].pos + offset
    ELSE heap[handles[h].node].len + offset

\* C14: the cursor of a handle is never negative; a Seek (whence being
\* io.SeekStart, io.SeekCurrent or io.SeekEnd) on an open handle that asks
\* for a negative position sets the cursor to 0 and returns Invalid, any
\* other, also one beyond the end of the file, sets the cursor to the
\* position asked for and returns no error, and neither changes the file.
SeekClampsAtZero ==
    /\ [](\A h \in HandleIds : handles[h].pos >= 0)
    /\ [][\A h \in HandleIds :
             (Called(h) /\ last'.op = "Seek" /\ handles[h].opMode # opClose
                /\ last'.arg[2] \in {SeekStart, SeekCurrent, SeekEnd}) =>
                 /\ heap' = heap
                 /\ IF Sought(h, last'.arg[1], last'.arg[2]) < 0
                    THEN handles'[h].pos = 0 /\ last'.err = ErrInvalid
                    ELSE /\ handles'[h].pos = Sought(h, last'.arg[1], last'.arg[2])
                         /\ last'.err = ErrNone]_vars

\* C14: a Seek back from the cursor has returned Invalid and left the
\* cursor at 0, on a file that holds bytes
SoughtBelowZero ==
    /\ last.op = "Seek"
    /\ last.arg = <<-2, SeekCurrent>>
    /\ last.err = ErrInvalid
    /\ handles[last.h].pos = 0
    /\ heap[handles[last.h].node].len > 0

(***************************************************************************)
(* Rename, Remove, RemoveAll, MkdirAll and OpenFile on the tree            *)
(***************************************************************************)

\* the entries the directory d holds once the entry called name is taken
\* out of the directory od and the node c entered in the directory nd as
\* newName (od = 0: nothing taken out; nd = 0: nothing entered)
EntriesAfter(nodes, d, od, name, nd, newName, c) ==
    With(IF d = od THEN DeleteAt(nodes[d].entries, EntryIndex(nodes[d], name))
                   ELSE nodes[d].entries, LAMBDA left :
        IF d = nd THEN Append(left, [name |-> newName, id |-> c]) ELSE left)

\* Rename(oldPath, newPath), returning no error in r, has moved the node
\* from its old name to its new one: the new path names the node the old
\* one named, with mode, modtime and contents as they were, the old path
\* names nothing, and the directories hold what they held but for that
RenameMoved(nodes, oldPath, newPath, r) ==
    With(FSgetEntryWithParent(nodes, RootId, oldPath, mustExist), LAMBDA o :
    With(FSgetEntryWithParent(nodes, RootId, newPath, mustNotExist), LAMBDA n :
        /\ FSgetLEntry(r.nodes, RootId, newPath).err = ErrNone
        /\ FSgetLEntry(r.nodes, RootId, newPath).id = o.c
        /\ r.nodes[o.c].kind = nodes[o.c].kind
        /\ r.nodes[o.c].mode = nodes[o.c].mode
        /\ r.nodes[o.c].modtime = nodes[o.c].modtime
        /\ o.c \notin {o.d, n.d} => r.nodes[o.c] = nodes[o.c]
        /\ FSgetLEntry(r.nodes, RootId, oldPath).err = ErrNotExist
        /\ \A d \in NodeIds :
              IsDnode(nodes[d]) =>
                  r.nodes[d].entries = EntriesAfter(nodes, d, o.d, o.name, n.d, Base(newPath), o.c)))

\* C15 (as claimed): a Rename(old, new) that returns no error leaves new
\* naming the very node old named (same contents, mode and modtime), old
\* naming nothing, and every other entry of every directory as it was; when
\* old exists and new exists too, Rename returns Exist.
RenameMovesTheNode ==
    \A oldPath \in Paths, newPath \in Paths :
        LET r == Rename(heap, RootId, oldPath, newPath, now)
        IN  /\ r.err = ErrNone => RenameMoved(heap, oldPath, newPath, r)
            /\ (/\ FSgetEntryWithParent(heap, RootId, oldPath, mustExist).err = ErrNone
                /\ FSgetLEntry(heap, RootId, newPath).err = ErrNone) => r.err = ErrExist

(***************************************************************************)
(* The names of the tree, with the latest facade call and what it returned *)
(* kept in last.                                                           *)
(***************************************************************************)

\* what a path names: "unresolved" (its parent does not resolve), "nothing",
\* "file", "symlink", "empty directory" or "directory" (one with entries)
Named(nodes, path) ==
    With(FSgetEntryWithParent(nodes, RootId, path, doesntMatter), LAMBDA p :
        IF p.err # ErrNone THEN "unresolved"
        ELSE IF p.c = 0 THEN "nothing"
        ELSE IF IsDnode(nodes[p.c])
        THEN IF hasEntries(nodes[p.c]) THEN "directory" ELSE "empty directory"
        ELSE IF nodes[p.c].mode \cap ModeSymlink # {} THEN "symlink"
        ELSE "file")

\* the flags OpenFile is called with
OpenModes == {ReadWrite, ReadWrite \cup Create, ReadWrite \cup Excl, ReadWrite \cup Create \cup Excl}

\* where the symlinks of the tree point to: the root
NameTargets == {<<"/">>}

InitNames ==
    /\ heap = New
    /\ handles = [h \in HandleIds |-> NoHandle]
    /\ now = 0
    /\ ro = <<>>
    /\ links = {}
    /\ run = start(<<>>)
    /\ query = [path |-> <<>>, symlinks |-> 0]
    /\ steps = 0
    /\ met = 0
    /\ NoCalls
    /\ whole = heap
    /\ last = NoCallYet

\* a facade call on a path: the tree it leaves, and the call kept in last
NameCall(op, path, r) ==
    /\ r.err # OutOfNodes
    /\ heap' = Collect(r.nodes, handles)
    /\ last' = [h |-> 0, op |-> op, arg |-> path, err |-> r.err,
                out |-> <<>>, bit |-> 1 - last.bit]
    /\ UNCHANGED <<handles, now, ro, links, resolving, threading>>

NameMkdir(path) == NameCall("Mkdir", path, mkdir(heap, RootId, path, ModePerm, now))

NameMkdirAll(path) == NameCall("MkdirAll", path, MkdirAll(heap, RootId, path, ModePerm, now))

NameSymlink(oldPath, newPath) == NameCall("Symlink", newPath, Symlink(heap, RootId, oldPath, newPath, now))

NameRemove(path) == NameCall("Remove", path, Remove(heap, RootId, path, now))

NameRemoveAll(path) == NameCall("RemoveAll", path, RemoveAll(heap, RootId, path, now))

\* FS.OpenFile, by a caller that closes the handle at once: last.out keeps
\* the flags of the call and the node the handle was on
NameOpenFile(path, mode) ==
    LET r == openFile(heap, RootId, path, mode, defaultPerms, now)
    IN  /\ r.err # OutOfNodes
        /\ heap' = Collect(r.nodes, handles)
        /\ last' = [h |-> 0, op |-> "OpenFile", arg |-> path, err |-> r.err,
                    out |-> <<mode, r.handle.node>>, bit |-> 1 - last.bit]
        /\ UNCHANGED <<handles, now, ro, links, resolving, threading>>

NextNames ==
    \/ \E path \in Paths : NameMkdir(path)
    \/ \E path \in Paths : NameMkdirAll(path)
    \/ \E oldPath \in NameTargets, newPath \in Paths : NameSymlink(oldPath, newPath)
    \/ \E path \in Paths : NameRemove(path)
    \/ \E path \in Paths : NameRemoveAll(path)
    \/ \E path \in Paths, mode \in OpenModes : NameOpenFile(path, mode)

SpecNames == InitNames /\ [][NextNames]_vars

\* the latest step was a call of op
CalledOp(op) == last' # last /\ last'.op = op

RemoveAllIsIdempotent ==
    [][(CalledOp("RemoveAll") /\ Named(heap, last'.arg) = "nothing") =>
          (last'.err = ErrNone /\ heap' = heap)]_vars

\* C18 (as claimed): a MkdirAll that follows a MkdirAll of the same path
\* that returned no error returns no error either and leaves every entry,
\* mode and modtime of the tree as the first call left it.
MkdirAllIsIdempotent ==
    [][(/\ CalledOp("MkdirAll")
        /\ last.op = "MkdirAll"
        /\ last.err = ErrNone
        /\ last'.arg = last.arg) =>
          (last'.err = ErrNone /\ heap' = heap)]_vars

\* the entries of a sequence
Range(s) == {s[i] : i \in 1..Len(s)}

\* after lists what before listed, less what was removed and in the order it
\* had, followed by what before did not list
KeptThenAdded(before, after) ==
    \E k \in 0..Len(after) :
        /\ SelectSeq(before, LAMBDA e : e \in Range(SubSeq(after, 1, k))) = SubSeq(after, 1, k)
        /\ \A i \in (k + 1)..Len(after) : after[i] \notin Range(before)

\* C19: whatever Mkdir, MkdirAll, Create, OpenFile, Link, Symlink, Rename,
\* Remove or RemoveAll does to a directory, the entries it keeps stay in the
\* order they were in and the entries it gains come after all of them.
EntriesInInsertionOrder ==
    [][\A d \in NodeIds :
          (IsDnode(heap[d]) /\ IsDnode(heap'[d])) => KeptThenAdded(heap[d].entries, heap'[d].entries)]_vars

\* C19 witness: the root lists b, made first, before a, made second
LaterEntryListedLast ==
    /\ Len(heap[RootId].entries) = 2
    /\ heap[RootId].entries[1].name = <<"b">>
    /\ heap[RootId].entries[2].name = <<"a">>

\* OpenFile(path) returned no error and a handle on the node in the entry
\* that path names after the call
OpenedAt(nodes, path) ==
    /\ last'.err = ErrNone
    /\ FSgetLEntry(nodes, RootId, path).err = ErrNone
    /\ FSgetLEntry(nodes, RootId, path).id = last'.out[2]

\* C20: OpenFile with Excl returns Exist when the path names something and
\* does not when it names nothing; with Create and without Excl it opens the
\* file the path names, or makes and opens one when the path names nothing;
\* with neither it opens the file the path names, and returns NotExist,
\* making nothing, when the path names nothing.
OpenFileExistencePolicy ==
    [][CalledOp("OpenFile") =>
          LET path == last'.arg
              mode == last'.out[1]
              named == Named(heap, path)
              there == FSgetLEntry(heap, RootId, path)
          IN  /\ (mode \cap Excl # {} /\ named \notin {"nothing", "unresolved"}) =>
                     (last'.err = ErrExist /\ heap' = heap)
              /\ (mode \cap Excl # {} /\ named = "nothing") =>
                     (OpenedAt(heap', path) /\ Named(heap', path) = "file")
              /\ (mode \cap Excl = {} /\ mode \cap Create # {} /\ named = "file") =>
                     (OpenedAt(heap, path) /\ heap' = heap)
              /\ (mode \cap Excl = {} /\ mode \cap Create # {} /\ named = "nothing") =>
                     (OpenedAt(heap', path) /\ Named(heap', path) = "file")
              /\ (mode \cap (Excl \cup Create) = {} /\ named = "file") =>
                     (OpenedAt(heap, path) /\ heap' = heap)
              /\ (mode \cap (Excl \cup Create) = {} /\ named = "nothing") =>
                     (last'.err = ErrNotExist /\ heap' = heap)]_vars

\* C20 witness: OpenFile with Excl has just been refused a path that names
\* a file
ExclRefused ==
    /\ last.op = "OpenFile"
    /\ last.out[1] \cap Excl # {}
    /\ last.err = ErrExist
    /\ Named(heap, last.arg) = "file"

(***************************************************************************)
(* Permissions: the tree under Chmod.                                      *)
(***************************************************************************)

\* the paths of the calls: /b/b is /a/b when /b is a symlink to /a
PermPaths == {<<"/", "a">>, <<"/", "b">>, <<"/", "a", "/", "b">>, <<"/", "b", "/", "b">>}

\* where directories are made, where files and names are made
DirPaths == {<<"/", "a">>, <<"/", "a", "/", "b">>}

NewPaths == {<<"/", "b">>, <<"/", "a", "/", "b">>}

\* what Chmod is called on, and with which modes: read only, write only,
\* and everything with a type bit on top
ChmodPaths == {<<"/">>, <<"/", "a">>}

ChmodModes == {{"r", "x"}, {"w", "x"}, ModePerm \cup ModeSymlink}

\* a facade call of the tree under Chmod
PermCall(r) ==
    /\ TreeCall(r)
    /\ UNCHANGED links

PermMkdir(path) == PermCall(mkdir(heap, RootId, path, ModePerm, now))

PermChmod(path, mode) == PermCall(Chmod(heap, RootId, path, mode))

\* FS.OpenFile, by a caller that closes the handle at once
PermOpenFile(path) == PermCall(openFile(heap, RootId, path, ReadWrite \cup Create, defaultPerms, now))

PermSymlink(oldPath, newPath) == PermCall(Symlink(heap, RootId, oldPath, newPath, now))

PermLink(oldPath, newPath) == PermCall(Link(heap, RootId, oldPath, newPath, now))

PermRename(oldPath, newPath) == PermCall(Rename(heap, RootId, oldPath, newPath, now))

PermRemove(path) == PermCall(Remove(heap, RootId, path, now))

PermRemoveAll(path) == PermCall(RemoveAll(heap, RootId, path, now))

NextPerm ==
    \/ \E path \in DirPaths : PermMkdir(path)
    \/ \E path \in ChmodPaths, mode \in ChmodModes : PermChmod(path, mode)
    \/ \E path \in NewPaths : PermOpenFile(path)
    \/ PermSymlink(<<"/", "a">>, <<"/", "b">>)
    \/ \E oldPath \in NewPaths, newPath \in NewPaths : PermLink(oldPath, newPath)
    \/ \E oldPath \in PermPaths, newPath \in NewPaths : PermRename(oldPath, newPath)
    \/ \E path \in PermPaths : PermRemove(path)
    \/ \E path \in PermPaths : PermRemoveAll(path)

SpecPerm == Init /\ [][NextPerm]_vars

\* the tree with write permission given on every directory
Writable(nodes) ==
    [i \in NodeIds |-> IF IsDnode(nodes[i]) THEN [nodes[i] EXCEPT !.mode = @ \cup modeWrite] ELSE nodes[i]]

\* the directories that may not be written to
ReadOnlyDirs(nodes) == {d \in NodeIds : IsDnode(nodes[d]) /\ nodes[d].mode \cap modeWrite = {}}

\* a call that returned r, and would have returned rw had every directory
\* been writable: where rw is a success that changes the entries of a
\* directory that may not be written to, r is Permission and no change
TurnedDown(r, rw) ==
    (/\ rw.err = ErrNone
     /\ \E d \in ReadOnlyDirs(heap) : rw.nodes[d].entries # heap[d].entries) =>
        (r.err = ErrPermission /\ r.nodes = heap)

\* C21: Mkdir, a creating OpenFile, Link, Symlink, Rename, Remove and
\* RemoveAll that would add an entry to, or take one from, a directory whose
\* mode has no write bit return Permission and change nothing; and no step of
\* the file system changes the entries of such a directory.
ReadOnlyDirsKeepEntries ==
    /\ [](/\ \A path \in PermPaths :
                /\ TurnedDown(mkdir(heap, RootId, path, ModePerm, now),
                              mkdir(Writable(heap), RootId, path, ModePerm, now))
                /\ TurnedDown(openFile(heap, RootId, path, ReadWrite \cup Create, defaultPerms, now),
                              openFile(Writable(heap), RootId, path, ReadWrite \cup Create, defaultPerms, now))
                /\ TurnedDown(Symlink(heap, RootId, <<"/", "a">>, path, now),
                              Symlink(Writable(heap), RootId, <<"/", "a">>, path, now))
                /\ TurnedDown(Remove(heap, RootId, path, now), Remove(Writable(heap), RootId, path, now))
                /\ TurnedDown(RemoveAll(heap, RootId, path, now), RemoveAll(Writable(heap), RootId, path, now))
          /\ \A oldPath \in PermPaths, newPath \in PermPaths :
                /\ TurnedDown(Link(heap, RootId, oldPath, newPath, now),
                              Link(Writable(heap), RootId, oldPath, newPath, now))
                /\ TurnedDown(Rename(heap, RootId, oldPath, newPath, now),
                              Rename(Writable(heap), RootId, oldPath, newPath, now)))
    /\ [][\A d \in ReadOnlyDirs(heap) : IsDnode(heap'[d]) => heap'[d].entries = heap[d].entries]_vars

\* C21 witness: a directory below the root may not be written to, and Remove
\* of a file in it is turned down for that reason alone
ReadOnlyDirAsked ==
    \E path \in PermPaths :
        /\ FSgetDirEnt(heap, RootId, splitPathDir(path)).err = ErrNone
        /\ FSgetDirEnt(heap, RootId, splitPathDir(path)).id \in ReadOnlyDirs(heap) \ {RootId}
        /\ Named(heap, path) = "file"
        /\ Remove(heap, RootId, path, now).err = ErrPermission
        /\ Remove(Writable(heap), RootId, path, now).err = ErrNone

\* the tree with read permission given on every directory
Readable(nodes) ==
    [i \in NodeIds |-> IF IsDnode(nodes[i]) THEN [nodes[i] EXCEPT !.mode = @ \cup modeRead] ELSE nodes[i]]

\* resolving path looks a name up in a directory that may not be read: the
\* root, or the directory that the last name of the path is looked up in
\* (found, through symlinks too, as if every directory could be read)
LooksInUnreadable(nodes, path) ==
    With(FSgetDirEnt(Readable(nodes), RootId, SplitDir(path)), LAMBDA d :
        /\ d.err = ErrNone
        /\ \E hop \in {RootId, d.id} : nodes[hop].mode \cap modeRead = {})

\* C22 (as claimed): every facade operation on a path whose resolution looks
\* a name up in a directory without the read bit, reached by a symlink or
\* not, returns Permission, whether the name is there or not.
ReadCheckedAtEveryHop ==
    \A path \in PermPaths :
        LooksInUnreadable(heap, path) =>
            /\ Stat(heap, RootId, path).err = ErrPermission
            /\ LStat(heap, RootId, path).err = ErrPermission
            /\ Open(heap, RootId, path).err = ErrPermission
            /\ ReadFile(heap, RootId, path).err = ErrPermission
            /\ ReadDir(heap, RootId, path).err = ErrPermission
            /\ Readlink(heap, RootId, path).err = ErrPermission
            /\ Chown(heap, RootId, path) = ErrPermission
            /\ Lchown(heap, RootId, path) = ErrPermission
            /\ Chmod(heap, RootId, path, ModePerm).err = ErrPermission
            /\ Chtimes(heap, RootId, path, now).err = ErrPermission
            /\ Lchtimes(heap, RootId, path, now).err = ErrPermission
            /\ mkdir(heap, RootId, path, ModePerm, now).err = ErrPermission
            /\ openFile(heap, RootId, path, ReadWrite \cup Create, defaultPerms, now).err = ErrPermission
            /\ Symlink(heap, RootId, <<"/", "a">>, path, now).err = ErrPermission
            /\ \A newPath \in PermPaths : Link(heap, RootId, path, newPath, now).err = ErrPermission
            /\ \A newPath \in PermPaths : Rename(heap, RootId, path, newPath, now).err = ErrPermission
            /\ Remove(heap, RootId, path, now).err = ErrPermission
            /\ RemoveAll(heap, RootId, path, now).err = ErrPermission

\* the type bits of a mode
TypeBits(mode) == mode \cap (ModeDir \cup ModeSymlink)

\* the permissions that nodes are made with: some carry a type bit
MakePerms == {ModePerm, ModePerm \cup ModeSymlink, ModePerm \cup ModeDir}

\* the node that path names in the tree a call left, when the call returned
\* no error and the path named nothing before, has the type bits type
MadeWithType(r, path, type) ==
    (r.err = ErrNone /\ Named(heap, path) = "nothing") =>
        TypeBits(r.nodes[FSgetLEntry(r.nodes, RootId, path).id].mode) = type

\* Chmod(path, mode), having returned no error, has set the permission bits
\* of the node the path resolves to, and has changed nothing else
ChmodSetPermsOnly(path, mode) ==
    With(Chmod(heap, RootId, path, mode), LAMBDA r :
    With(FSgetEntry(heap, RootId, path).id, LAMBDA id :
        r.err = ErrNone =>
            /\ TypeBits(r.nodes[id].mode) = TypeBits(heap[id].mode)
            /\ r.nodes[id].mode \cap ModePerm = mode \cap ModePerm
            /\ r.nodes = [heap EXCEPT ![id].mode = r.nodes[id].mode]))

\* C23 (as claimed): a node made by Mkdir has the directory bit and no other
\* type bit, one made by Symlink the symlink bit alone, one made by OpenFile
\* neither, whatever permissions the call is given; and Chmod changes the
\* permission bits only, whatever bits its mode holds.
TypeBitsPreserved ==
    /\ \A path \in PermPaths, mode \in MakePerms : ChmodSetPermsOnly(path, mode)
    /\ \A path \in PermPaths : MadeWithType(Symlink(heap, RootId, <<"/", "a">>, path, now), path, ModeSymlink)
    /\ \A path \in PermPaths, perm \in MakePerms :
          /\ MadeWithType(mkdir(heap, RootId, path, perm, now), path, ModeDir)
          /\ MadeWithType(openFile(heap, RootId, path, ReadWrite \cup Create, perm, now), path, {})

(***************************************************************************)
(* Operations that only read                                               *)
(***************************************************************************)

\* the calls on a handle, and on the file system, that only read
ReadingOps ==
    {"Open", "Read", "ReadAt", "ReadByte", "UnreadByte", "ReadRune", "UnreadRune", "WriteTo", "Seek", "Close"}

UnlinkPaths == {<<"/", "a">>, <<"/", "b">>}

NextUnlink ==
    \/ CallCreate(<<"/", "a">>)
    \/ PermOpenFile(<<"/", "a">>)
    \/ CallMkdir(<<"/", "a">>, ModePerm)
    \/ \E h \in HandleIds, p \in Payloads : CallWrite(h, p)
    \/ \E h \in HandleIds : CallSeek(h, 0, SeekStart)
    \/ \E h \in HandleIds, k \in {1, 2} : CallRead(h, k)
    \/ \E h \in HandleIds : CallCloseAndDrop(h)
    \/ \E path \in UnlinkPaths : CallRemove(path)
    \/ \E path \in UnlinkPaths : CallRemoveAll(path)
    \/ \E oldPath \in UnlinkPaths, newPath \in UnlinkPaths : CallRename(oldPath, newPath)

SpecUnlink == Init /\ [][NextUnlink]_vars

\* the handle in slot h is open
IsOpen(hs, h) == hs[h].kind = "File" /\ hs[h].opMode # opClose

\* the handle in slot h is open on a file that the path it was opened by
\* does not name any more
Detached(nodes, hs, h) ==
    /\ IsOpen(hs, h)
    /\ \/ FSgetLEntry(nodes, RootId, <<"/">> \o hs[h].name).err # ErrNone
       \/ FSgetLEntry(nodes, RootId, <<"/">> \o hs[h].name).id # hs[h].node

\* the handle in slot h is open on a file that no name leads to
Unlinked(nodes, hs, h) == IsOpen(hs, h) /\ hs[h].node \notin Live(nodes, {RootId})

\* C25: when Remove, RemoveAll or Rename takes away the name a handle was
\* opened by, and from then on whatever is done to the paths of the tree,
\* the inode stays and keeps its data, length, mode and modtime as long as
\* no handle on it is used, and the handle reads what the inode holds.
InodeOutlivesItsNames ==
    [][\A h \in HandleIds :
          (/\ IsOpen(handles, h)
           /\ IsOpen(handles', h)
           /\ Detached(heap, handles, h) \/ Detached(heap', handles', h)) =>
              /\ handles'[h].node = handles[h].node
              /\ IsInode(heap'[handles[h].node])
              /\ (\A g \in HandleIds : handles[g].node = handles[h].node => handles'[g] = handles[g]) =>
                     heap'[handles[h].node] = heap[handles[h].node]
              /\ ReadAll(heap', [handles'[h] EXCEPT !.pos = 0]).out = Data(heap'[handles[h].node])]_vars

\* C25 witness: a handle is open on a file with data that no name leads to,
\* and the path it was opened by names another node
OpenAndUnlinked ==
    \E h \in HandleIds :
        /\ Unlinked(heap, handles, h)
        /\ heap[handles[h].node].len > 0
        /\ Named(heap, <<"/", "a">>) \in {"file", "empty directory"}

(***************************************************************************)
(* Directory handles                                                       *)
(***************************************************************************)

\* the names of a sequence of entries
EntryNames(entries) == [i \in 1..Len(entries) |-> entries[i].name]

\* directory.ReadDir / directoryRW.ReadDir
directoryReadDir(nodes, h, n) ==
    With(Len(nodes[h.node].entries) - h.pos, LAMBDA left :
    With(IF left < n \/ n <= 0 THEN left ELSE n, LAMBDA m :
        IF nodes[h.node].mode \cap modeRead = {} THEN HandleResult(ErrPermission, nodes, h, <<>>)
        ELSE IF m = 0 THEN HandleResult(IF n <= 0 THEN ErrNone ELSE EOF, nodes, h, <<>>)
        ELSE IF m < 0 THEN HandleResult(Panic, nodes, h, <<>>)
        ELSE HandleResult(ErrNone, nodes, [h EXCEPT !.pos = @ + m],
                          EntryNames(SubSeq(nodes[h.node].entries, h.pos + 1, h.pos + m)))))

\* how many entries ReadDir is asked for
Counts == {-1, 0, 1, 2}

\* where the entries of the root are made
DirEntryPaths == {<<"/", "a">>, <<"/", "b">>, <<"/", "c">>}

\* FS.Open of the root: the directory handle, in place of the one held
DirOpen(h) ==
    LET r == Open(heap, RootId, <<"/">>)
    IN  /\ handles' = IF r.err = ErrNone THEN [handles EXCEPT ![h] = r.handle] ELSE handles
        /\ last' = [h |-> h, op |-> "Open", arg |-> <<>>, err |-> r.err, out |-> <<>>, bit |-> 1 - last.bit]
        /\ UNCHANGED <<heap, now, ro, links, resolving, threading>>

DirReadDir(h, n) ==
    LET r == directoryReadDir(heap, handles[h], n)
    IN  /\ handles[h].kind = "directoryRW"
        /\ heap' = r.nodes
        /\ handles' = [handles EXCEPT ![h] = r.handle]
        /\ last' = [h |-> h, op |-> "ReadDir", arg |-> <<n>>, err |-> r.err, out |-> r.out, bit |-> 1 - last.bit]
        /\ UNCHANGED <<now, ro, links, resolving, threading>>

NextDir ==
    \/ \E path \in DirEntryPaths : NameMkdir(path)
    \/ \E path \in DirEntryPaths : NameRemove(path)
    \/ \E h \in HandleIds : DirOpen(h)
    \/ \E h \in HandleIds, n \in Counts : DirReadDir(h, n)

SpecDir == InitNames /\ [][NextDir]_vars

\* C26 (as claimed): on a directory handle whose cursor is within the
\* entries, ReadDir(n) with n > 0 returns the next min(n, remaining) entries
\* and moves the cursor past them, or returns EOF when none remains; with
\* n <= 0 it returns all the remaining entries and leaves the cursor alone.
ReadDirCursor ==
    [][\A h \in HandleIds :
          (/\ last'.bit # last.bit
           /\ last'.op = "ReadDir"
           /\ last'.h = h
           /\ handles[h].pos <= Len(heap[handles[h].node].entries)) =>
              LET n == last'.arg[1]
                  pos == handles[h].pos
                  entries == heap[handles[h].node].entries
                  m == Min(n, Len(entries) - pos)
              IN  /\ (n > 0 /\ pos < Len(entries)) =>
                         /\ last'.err = ErrNone
                         /\ last'.out = EntryNames(SubSeq(entries, pos + 1, pos + m))
                         /\ handles'[h].pos = pos + m
                  /\ (n > 0 /\ pos = Len(entries)) =>
                         (last'.err = EOF /\ handles'[h].pos = pos)
                  /\ n <= 0 =>
                         /\ last'.err = ErrNone
                         /\ last'.out = EntryNames(SubSeq(entries, pos + 1, Len(entries)))
                         /\ handles'[h].pos = pos]_vars

(***************************************************************************)
(* The root directory                                                      *)
(***************************************************************************)

\* the paths that name the root
RootPaths == {<<>>, <<"/">>}

\* the paths the calls on the root are tried with
RootTried == RootPaths \cup {<<"/", "a">>, <<"/", "a", "/", "b">>}

\* FS.Rename, the call kept in last: arg is oldPath and out holds newPath
NameRename(oldPath, newPath) ==
    LET r == Rename(heap, RootId, oldPath, newPath, now)
    IN  /\ r.err # OutOfNodes
        /\ heap' = Collect(r.nodes, handles)
        /\ last' = [h |-> 0, op |-> "Rename", arg |-> oldPath, err |-> r.err,
                    out |-> <<newPath>>, bit |-> 1 - last.bit]
        /\ UNCHANGED <<handles, now, ro, links, resolving, threading>>

NameChmod(path, mode) == NameCall("Chmod", path, Chmod(heap, RootId, path, mode))

NextRoot ==
    \/ \E path \in RootTried \ RootPaths : NameMkdir(path)
    \/ \E mode \in ChmodModes : NameChmod(<<"/">>, mode)
    \/ \E path \in RootTried : NameRemove(path)
    \/ \E path \in RootTried : NameRemoveAll(path)
    \/ \E oldPath \in RootTried, newPath \in RootTried : NameRename(oldPath, newPath)

SpecRoot == InitNames /\ [][NextRoot]_vars

\* the latest step was a Remove, RemoveAll or Rename given a path of the root
OnRootPath ==
    /\ last'.bit # last.bit
    /\ \/ last'.op \in {"Remove", "RemoveAll", "Rename"} /\ last'.arg \in RootPaths
       \/ last'.op = "Rename" /\ last'.out[1] \in RootPaths

\* C27: a Remove, RemoveAll or Rename given the root path or the empty path
\* fails and leaves every node as it was, Remove with Invalid; the root
\* is a directory in every state and no directory holds it as an entry.
RootIsNeverDeleted ==
    /\ [][OnRootPath =>
             /\ last'.err # ErrNone
             /\ last'.op = "Remove" => last'.err = ErrInvalid
             /\ heap' = heap]_vars
    /\ [](/\ IsDnode(heap[RootId])
          /\ \A d \in NodeIds : \A i \in 1..Len(heap[d].entries) : heap[d].entries[i].id # RootId)

\* C27 witness: Remove of the root path was refused while the root held an
\* entry and could be written to
RootRemoveRefused ==
    /\ last.op = "Remove"
    /\ last.arg = <<"/">>
    /\ last.err = ErrInvalid
    /\ heap[RootId].entries # <<>>
    /\ heap[RootId].mode \cap modeWrite # {}

(***************************************************************************)
(* Absolute symlinks inside a path                                         *)
(***************************************************************************)

\* the symlinks met before the end of a path, and what follows them
InnerLinks == {<<"/", "a">>}

Tails == {<<"b">>}

\* what a path resolves to: the error, and the node
Resolved(nodes, path) ==
    With(FSgetEntry(nodes, RootId, path), LAMBDA de : <<de.err, de.id>>)

\* C28 (as claimed): when l is a symlink whose target t starts with "/", a
\* path l/x resolves as the path t/x does: resolution restarts at the root
\* along t followed by the components not yet consumed.
AbsoluteLinkKeepsTail ==
    \A l \in InnerLinks, x \in Tails :
        LET t == Readlink(heap, RootId, l)
        IN  (t.err = ErrNone /\ HasPrefixSlash(t.data)) =>
                Resolved(heap, l \o slash \o x) = Resolved(heap, t.data \o slash \o x)

(***************************************************************************)
(* Write capability: a file is opened with every combination of flags the  *)
(* claim is about, written to and read from its handle, and its            *)
(* permission bits are changed.                                            *)
(***************************************************************************)

GrantPath == <<"/", "a">>

\* the flags OpenFile is called with
GrantModes == {ReadWrite \cup Create, ReadWrite, WriteOnly, ReadOnly, ReadOnly \cup Truncate, ReadOnly \cup AppendFlag}

\* the permission bits the file is given: all, and all but write
GrantPerms == {ModePerm, {"r", "x"}}

NextGrant ==
    \/ \E mode \in GrantModes : CallOpenFile(GrantPath, mode, ModePerm)
    \/ \E perm \in GrantPerms : CallChmod(GrantPath, perm)
    \/ \E h \in HandleIds, p \in Payloads : CallWrite(h, p)
    \/ \E h \in HandleIds : CallSeek(h, 0, SeekStart)
    \/ \E h \in HandleIds : CallRead(h, 1)
    \/ \E h \in HandleIds : CallCloseAndDrop(h)

SpecGrant == Init /\ [][NextGrant]_vars

\* a handle on node i that holds the Write capability
WriteGranted(hs, i) == \E h \in HandleIds : hs[h].kind = "File" /\ hs[h].node = i /\ opWrite \subseteq hs[h].opMode

\* C29 (as claimed): a step changes the bytes or the length of a regular file
\* only when a handle on the file holds the Write capability, before the
\* step or (for the OpenFile that grants it) after it.
WritesNeedWriteCapability ==
    [][\A i \in NodeIds :
          (IsInode(heap[i]) /\ IsInode(heap'[i]) /\ Data(heap'[i]) # Data(heap[i])) =>
              (WriteGranted(handles, i) \/ WriteGranted(handles', i))]_vars

(***************************************************************************)
(* Calls that fail                                                         *)
(***************************************************************************)

AtomicPaths == {<<"/", "a">>, <<"/", "a", "/", "b">>}

\* the permission bits files are created with: read and write, read only
AtomicPerms == {defaultPerms, {"r"}}

NameLink(oldPath, newPath) == NameCall("Link", newPath, Link(heap, RootId, oldPath, newPath, now))

\* FS.OpenFile to read and write, creating the file, by a caller that closes
\* the handle at once: last.out keeps the permission bits asked for
NameOpenFilePerm(path, perm) ==
    LET r == openFile(heap, RootId, path, ReadWrite \cup Create, perm, now)
    IN  /\ r.err # OutOfNodes
        /\ heap' = Collect(r.nodes, handles)
        /\ last' = [h |-> 0, op |-> "OpenFile", arg |-> path, err |-> r.err,
                    out |-> <<perm>>, bit |-> 1 - last.bit]
        /\ UNCHANGED <<handles, now, ro, links, resolving, threading>>

NextAtomic ==
    \/ \E path \in AtomicPaths : NameMkdir(path)
    \/ \E path \in AtomicPaths, perm \in AtomicPerms : NameOpenFilePerm(path, perm)
    \/ \E oldPath \in AtomicPaths, newPath \in AtomicPaths : NameLink(oldPath, newPath)
    \/ \E newPath \in AtomicPaths : NameSymlink(<<"/">>, newPath)
    \/ \E oldPath \in AtomicPaths, newPath \in AtomicPaths : NameRename(oldPath, newPath)
    \/ \E path \in AtomicPaths : NameRemove(path)
    \/ \E path \in AtomicPaths : NameRemoveAll(path)
    \/ \E mode \in ChmodModes : NameChmod(<<"/", "a">>, mode)

SpecAtomic == InitNames /\ [][NextAtomic]_vars

\* the calls that make, move and remove entries
EntryOps == {"Mkdir", "OpenFile", "Link", "Symlink", "Rename", "Remove", "RemoveAll"}

\* C30 (as claimed): a Mkdir, OpenFile, Create, Link, Symlink, Rename, Remove
\* or RemoveAll that returns an error leaves every node (entries, bytes,
\* mode and modtime) as it was before the call.
FailedCallsChangeNothing ==
    [][(last'.bit # last.bit /\ last'.op \in EntryOps /\ last'.err # ErrNone) => heap' = heap]_vars

(***************************************************************************)
(* The shape of the directory graph                                        *)
(***************************************************************************)

\* the nodes the entries of directory d refer to
Kids(nodes, d) == {nodes[d].entries[k].id : k \in 1..Len(nodes[d].entries)}

\* the directories that can be reached from the root
RootedDirs(nodes) == {d \in Live(nodes, {RootId}) : IsDnode(nodes[d])}

\* directory d is found below itself
OwnAncestor(nodes, d) == d \in Live(nodes, Kids(nodes, d))

\* the directories of before are still below the root in after, none below itself
TreeKept(before, after) ==
    /\ RootedDirs(before) \subseteq RootedDirs(after)
    /\ \A d \in NodeIds : IsDnode(after[d]) => ~OwnAncestor(after, d)

\* C31 (as claimed): a Mkdir, Link or Rename that returns no error
\* leaves every directory that was reachable from the root reachable from
\* it, and no directory its own ancestor.
DirectoriesStayATree ==
    /\ \A path \in Paths :
           LET r == mkdir(heap, RootId, path, ModePerm, now)
           IN  r.err = ErrNone => TreeKept(heap, r.nodes)
    /\ \A oldPath \in Paths, newPath \in Paths :
           /\ LET r == Link(heap, RootId, oldPath, newPath, now)
              IN  r.err = ErrNone => TreeKept(heap, r.nodes)
           /\ LET r == Rename(heap, RootId, oldPath, newPath, now)
              IN  r.err = ErrNone => TreeKept(heap, r.nodes)

(***************************************************************************)
(* The locks of the nodes: each call is the sequence of the lockings,      *)
(* unlockings, reads and writes of node fields that its code makes, and    *)
(* the threads take their calls one instruction at a time.                 *)
(***************************************************************************)

LockFile == <<"/", "f">>

LockDir == <<"/", "d">>

\* "/f" holds "a"; the handle in every slot is the one Create returned
LocksCreated == CreateFile(New, RootId, LockFile, 0)

LocksWritten == Write(LocksCreated.nodes, LocksCreated.handle, <<"a">>, 0)

\* the inode of "/f"
LockInode == LocksCreated.handle.node

\* one instruction: do is Lock, RLock, Unlock, RUnlock, read or write, n the
\* node, fields the fields read or written, eff the change a write makes
Ins(do, n, fields, eff) == [do |-> do, n |-> n, fields |-> fields, eff |-> eff]

\* dnodeRW.Mode, inodeRW.Mode
ModeProg(n) ==
    <<Ins("RLock", n, {}, "none"), Ins("read", n, {"mode"}, "none"), Ins("RUnlock", n, {}, "none")>>

\* dnodeRW.getEntry
getEntryProg(d) ==
    <<Ins("RLock", d, {}, "none"), Ins("read", d, {"mode", "entries"}, "none"), Ins("RUnlock", d, {}, "none")>>

\* resolver.resolve of "/f": curr.Mode(), curr.getEntry(name), next.Mode()
resolveProg == ModeProg(RootId) \o getEntryProg(RootId) \o ModeProg(LockInode)

\* dnodeRW.open: d.mode is read, d.mu is not taken
dnodeRWopenProg(d) == <<Ins("read", d, {"mode"}, "none")>>

\* inodeRW.open
inodeRWopenProg(i) ==
    <<Ins("Lock", i, {}, "none"), Ins("read", i, {"mode"}, "none"), Ins("Unlock", i, {}, "none")>>

\* File.handleOpenMode: f.mu is not taken
handleOpenModeProg(i, mode) ==
    (IF mode \cap Truncate # {} THEN <<Ins("write", i, {"data", "modtime"}, "truncate")>> ELSE <<>>)
    \o (IF mode \cap AppendFlag # {} THEN <<Ins("read", i, {"data"}, "none")>> ELSE <<>>)

\* FS.openFile of "/f", which exists: getEntryWithParent, open, handleOpenMode
openFileProg(mode) ==
    getEntryProg(RootId) \o inodeRWopenProg(LockInode) \o handleOpenModeProg(LockInode, mode)

\* fsRO.ReadFile of "/f": getEntry, inodeRW.bytes, and the copy of the bytes
\* made once bytes has returned
ReadFileProg ==
    resolveProg
    \o <<Ins(InodeLockOf("bytes"), LockInode, {}, "none"),
         Ins("read", LockInode, {"mode", "data"}, "none"),
         Ins("RUnlock", LockInode, {}, "none"),
         Ins("read", LockInode, {"data"}, "none")>>

\* File.Write
WriteProg ==
    <<Ins(InodeLockOf("Write"), LockInode, {}, "none"),
      Ins("write", LockInode, {"data", "modtime"}, "write"),
      Ins("Unlock", LockInode, {}, "none")>>

\* FS.Chmod of "/f": getEntry and inodeRW.setMode
ChmodProg ==
    resolveProg
    \o <<Ins("Lock", LockInode, {}, "none"),
         Ins("write", LockInode, {"mode"}, "chmod"),
         Ins("Unlock", LockInode, {}, "none")>>

\* FS.mkdir of "/d": getEntryWithParent and, when there is no "/d" yet,
\* dnodeRW.setEntry
mkdirProg(nodes) ==
    getEntryProg(RootId)
    \o (IF FSgetEntryWithParent(nodes, RootId, LockDir, mustNotExist).err = ErrNone
        THEN <<Ins("Lock", RootId, {}, "none"),
               Ins("write", RootId, {"mode", "entries", "modtime"}, "mkdir"),
               Ins("Unlock", RootId, {}, "none")>>
        ELSE <<>>)

\* the calls the threads make; Open is fsRO.Open, of "/" and of "/f"
LockOps == {"OpenFile", "Truncate", "Append", "Open", "OpenDir", "ReadFile", "Write", "Chmod", "Mkdir"}

\* the flags of the three calls of OpenFile
LockModeOf(op) ==
    IF op = "Truncate" THEN ReadWrite \cup Truncate
    ELSE IF op = "Append" THEN ReadWrite \cup AppendFlag
    ELSE ReadWrite

\* the method of FS a call is
FacadeOf(op) == IF op \in {"Truncate", "Append"} THEN "OpenFile" ELSE IF op = "OpenDir" THEN "Open" ELSE op

ProgOf(op, nodes) ==
    IF op \in {"OpenFile", "Truncate", "Append"} THEN openFileProg(LockModeOf(op))
    ELSE IF op = "Open" THEN resolveProg \o inodeRWopenProg(LockInode)
    ELSE IF op = "OpenDir" THEN dnodeRWopenProg(RootId)
    ELSE IF op = "ReadFile" THEN ReadFileProg
    ELSE IF op = "Write" THEN WriteProg
    ELSE IF op = "Chmod" THEN ChmodProg
    ELSE mkdirProg(nodes)

\* the latest instruction that read or wrote fields of a node: the thread,
\* its call, and whether the thread held the lock of the node
NoAccessYet == [t |-> 0, op |-> "none", do |-> "none", n |-> 0, fields |-> {}, held |-> TRUE]

InitLocks ==
    /\ heap = LocksWritten.nodes
    /\ handles = [h \in HandleIds |-> LocksCreated.handle]
    /\ now = 1
    /\ ro = <<>>
    /\ links = {}
    /\ run = start(<<>>)
    /\ query = [path |-> <<>>, symlinks |-> 0]
    /\ steps = 0
    /\ met = 0
    /\ NoCalls
    /\ whole = heap
    /\ last = NoAccessYet

\* thread t holds mu as do needs it: for a write as the writer, for a read
\* as the writer or as a reader
Holds(mu, do, t) == mu.writer = t \/ (do = "read" /\ t \in mu.readers)

\* thread t starts a call: the method of FS takes f.mu as it does
BeginLocked(t, op) ==
    /\ calls[t].pc = "idle"
    /\ calls[t].left > 0
    /\ op = "Write" => handles[1].pos < MaxLen
    /\ CanAcquire(fsmu, FSLockOf(FacadeOf(op)))
    /\ fsmu' = Acquire(fsmu, FSLockOf(FacadeOf(op)), t)
    /\ calls' = [calls EXCEPT ![t] = [@ EXCEPT !.op = op, !.pc = "run", !.c = 1,
                                              !.p = ProgOf(op, heap), !.left = @ - 1]]
    /\ UNCHANGED <<heap, handles, now, ro, links, resolving, mus, whole, last>>

\* the node store after the change eff of a write instruction
Effect(eff, nodes) ==
    IF eff = "truncate"
    THEN handleOpenMode(nodes, [handles[1] EXCEPT !.pos = 0], ReadWrite \cup Truncate, now).nodes
    ELSE IF eff = "write" THEN Write(nodes, handles[1], <<"x">>, now).nodes
    ELSE IF eff = "chmod"
    THEN Chmod(nodes, RootId, LockFile,
               IF nodes[LockInode].mode = ModePerm THEN defaultPerms ELSE ModePerm).nodes
    ELSE IF eff = "mkdir" THEN mkdir(nodes, RootId, LockDir, ModePerm, now).nodes
    ELSE nodes

\* thread t takes or gives back the lock of a node
LockStep(t) ==
    LET i == calls[t].p[calls[t].c]
    IN  /\ calls[t].pc = "run"
        /\ calls[t].c <= Len(calls[t].p)
        /\ i.do \in {"Lock", "RLock", "Unlock", "RUnlock"}
        /\ i.do \in {"Lock", "RLock"} => CanAcquire(mus[i.n], i.do)
        /\ mus' = [mus EXCEPT ![i.n] = IF i.do \in {"Lock", "RLock"} THEN Acquire(@, i.do, t)
                                       ELSE Release(@, IF i.do = "Unlock" THEN "Lock" ELSE "RLock", t)]
        /\ calls' = [calls EXCEPT ![t].c = @ + 1]
        /\ UNCHANGED <<heap, handles, now, ro, links, resolving, fsmu, whole, last>>

\* thread t reads or writes fields of a node
AccessStep(t) ==
    LET i == calls[t].p[calls[t].c]
    IN  /\ calls[t].pc = "run"
        /\ calls[t].c <= Len(calls[t].p)
        /\ i.do \in {"read", "write", "none"}
        /\ heap' = Effect(i.eff, heap)
        /\ handles' = IF i.eff = "write"
                      THEN [handles EXCEPT ![1] = Write(heap, @, <<"x">>, now).handle]
                      ELSE handles
        /\ last' = IF i.do = "none" THEN last
                   ELSE [t |-> t, op |-> calls[t].op, do |-> i.do, n |-> i.n, fields |-> i.fields,
                         held |-> Holds(mus[i.n], i.do, t)]
        /\ calls' = [calls EXCEPT ![t].c = @ + 1]
        /\ UNCHANGED <<now, ro, links, resolving, fsmu, mus, whole>>

\* the call returns: the deferred unlock of f.mu
ReturnLocked(t) ==
    /\ calls[t].pc = "run"
    /\ calls[t].c > Len(calls[t].p)
    /\ fsmu' = Release(fsmu, FSLockOf(FacadeOf(calls[t].op)), t)
    /\ calls' = [calls EXCEPT ![t] = [Idle EXCEPT !.left = calls[t].left]]
    /\ UNCHANGED <<heap, handles, now, ro, links, resolving, mus, whole, last>>

NextLocks ==
    \/ \E t \in Threads, op \in LockOps : BeginLocked(t, op)
    \/ \E t \in Threads : LockStep(t)
    \/ \E t \in Threads : AccessStep(t)
    \/ \E t \in Threads : ReturnLocked(t)

SpecLocks == InitLocks /\ [][NextLocks]_vars

\* C32 (as claimed): whenever a thread reads or writes the mode, the
\* modtime, the entries or the data of a node, it holds the lock of that
\* node (to write, as the writer).
AccessesHoldTheNodeLock == last.do \in {"read", "write"} => last.held

(***************************************************************************)
(* Sub: the FS values of the program, each with its root and its own       *)
(* mutex, and threads that read and rename through them.  In this          *)
(* specification fsmu holds the FS values: fsmu[1] is the FS made by New,  *)
(* the others are the ones Sub returned.                                   *)
(***************************************************************************)

SubDir == <<"/", "a">>

\* "/a" is a directory that holds the directory "x"
SubHeap ==
    mkdir(mkdir(New, RootId, SubDir, ModePerm, 0).nodes, RootId, <<"/", "a", "/", "x">>, ModePerm, 0).nodes

\* how many FS values there are at most
MaxFS == 2

\* fsRO.sub: the directory a path names, which may be read
sub(nodes, root, path) ==
    With(FSgetDirEnt(nodes, root, path), LAMBDA d :
        IF d.err # ErrNone THEN d
        ELSE IF nodes[d.id].mode \cap modeRead = {} THEN [err |-> ErrPermission, id |-> 0]
        ELSE d)

\* &FS{fsRO: fsRO{de: de}}: the mutex of the new FS is its own, unlocked
NewFS(de) == [de |-> de, mu |-> Unlocked]

InitSub ==
    /\ heap = SubHeap
    /\ handles = [h \in HandleIds |-> NoHandle]
    /\ now = 0
    /\ ro = <<>>
    /\ links = {}
    /\ run = start(<<>>)
    /\ query = [path |-> <<>>, symlinks |-> 0]
    /\ steps = 0
    /\ met = 0
    /\ fsmu = <<NewFS(RootId)>>
    /\ mus = [i \in NodeIds |-> Unlocked]
    /\ calls = [t \in Threads |-> Idle]
    /\ whole = heap
    /\ last = <<>>

\* the path of the entry `name` of "/a" as the FS value v names it
SubPath(v, name) == IF fsmu[v].de = RootId THEN SubDir \o <<"/">> \o name ELSE <<"/">> \o name

\* the names under which the entry goes
SubNames == {<<"x">>, <<"y">>}

\* what ReadDir of "/a" returns through the FS value v: the error, the names
SubReadDir(nodes, v) ==
    With(ReadDir(nodes, fsmu[v].de, SubPath(v, <<>>)), LAMBDA dir :
        [err |-> dir.err, names |-> [i \in 1..Len(dir.entries) |-> dir.entries[i].name]])

\* the calls once a call has taken effect and left the nodes `nodes`: a
\* ReadDir that is under way may return what it returns for them
NotedSub(cs, nodes) ==
    [u \in Threads |->
        IF cs[u].pc \in {"body", "return"} /\ cs[u].op = "ReadDir"
        THEN [cs[u] EXCEPT !.seen = @ \cup {SubReadDir(nodes, cs[u].w)}]
        ELSE cs[u]]

\* FS.Sub of "/a" on the first FS, under f.mu.RLock(): one more FS value
CallSub(t) ==
    LET de == sub(heap, fsmu[1].de, SubDir)
    IN  /\ calls[t].pc = "idle"
        /\ Len(fsmu) < MaxFS
        /\ CanAcquire(fsmu[1].mu, FSLockOf("Sub"))
        /\ de.err = ErrNone
        /\ fsmu' = Append(fsmu, NewFS(de.id))
        /\ UNCHANGED <<heap, handles, now, ro, links, resolving, mus, calls, whole, last>>

\* thread t calls ReadDir of "/a" through the FS value v: v.mu.RLock()
BeginSubRead(t, v) ==
    /\ calls[t].pc = "idle"
    /\ calls[t].left > 0
    /\ CanAcquire(fsmu[v].mu, FSLockOf("ReadDir"))
    /\ fsmu' = [fsmu EXCEPT ![v].mu = Acquire(@, FSLockOf("ReadDir"), t)]
    /\ calls' = [calls EXCEPT ![t] = [@ EXCEPT !.op = "ReadDir", !.pc = "body", !.w = v,
                                              !.left = @ - 1,
                                              !.seen = {SubReadDir(whole, v)}]]
    /\ UNCHANGED <<heap, handles, now, ro, links, resolving, mus, whole, last>>

\* the body of ReadDir
SubReadBody(t) ==
    /\ calls[t].pc = "body"
    /\ calls[t].op = "ReadDir"
    /\ calls' = [calls EXCEPT ![t].res = SubReadDir(heap, calls[t].w), ![t].pc = "return"]
    /\ UNCHANGED <<heap, handles, now, ro, links, resolving, fsmu, mus, whole, last>>

\* thread t calls Rename of an entry of "/a" through the FS value v: v.mu.Lock()
BeginSubRename(t, v, oldName, newName) ==
    /\ calls[t].pc = "idle"
    /\ calls[t].left > 0
    /\ CanAcquire(fsmu[v].mu, FSLockOf("Rename"))
    /\ fsmu' = [fsmu EXCEPT ![v].mu = Acquire(@, FSLockOf("Rename"), t)]
    /\ calls' = [calls EXCEPT ![t] = [@ EXCEPT !.op = "Rename", !.pc = "remove", !.w = v,
                                              !.left = @ - 1,
                                              !.path = SubPath(v, oldName),
                                              !.newPath = SubPath(v, newName)]]
    /\ UNCHANGED <<heap, handles, now, ro, links, resolving, mus, whole, last>>

\* FS.Rename: the checks and od.removeEntry
SubRenameRemoveEntry(t) ==
    LET root == fsmu[calls[t].w].de
        removed == RenameRemoved(heap, root, calls[t].path, calls[t].newPath, now)
    IN  /\ calls[t].pc = "remove"
        /\ heap' = removed.nodes
        /\ IF removed.err = ErrNone
           THEN /\ whole' = whole
                /\ calls' = [calls EXCEPT ![t].pc = "set", ![t].d = removed.nd, ![t].c = removed.c]
           ELSE /\ whole' = Rename(whole, root, calls[t].path, calls[t].newPath, now).nodes
                /\ calls' = NotedSub([calls EXCEPT ![t].pc = "return", ![t].res = removed.err], whole')
        /\ UNCHANGED <<handles, now, ro, links, resolving, fsmu, mus, last>>

\* FS.Rename: nd.setEntry, with which the call has taken effect
SubRenameSetEntry(t) ==
    LET root == fsmu[calls[t].w].de
        set == RenameSet(heap, calls[t].d, calls[t].c, calls[t].newPath, now)
    IN  /\ calls[t].pc = "set"
        /\ heap' = set.nodes
        /\ whole' = Rename(whole, root, calls[t].path, calls[t].newPath, now).nodes
        /\ calls' = NotedSub([calls EXCEPT ![t].pc = "return", ![t].res = set.err], whole')
        /\ UNCHANGED <<handles, now, ro, links, resolving, fsmu, mus, last>>

\* a call returns: the deferred Unlock or RUnlock of the mutex of its FS
SubReturn(t) ==
    /\ calls[t].pc = "return"
    /\ fsmu' = [fsmu EXCEPT ![calls[t].w].mu = Release(@, FSLockOf(calls[t].op), t)]
    /\ calls' = [calls EXCEPT ![t] = [Idle EXCEPT !.left = calls[t].left]]
    /\ UNCHANGED <<heap, handles, now, ro, links, resolving, mus, whole, last>>

NextSub ==
    \/ \E t \in Threads : CallSub(t)
    \/ \E t \in Threads : \E v \in DOMAIN fsmu : BeginSubRead(t, v)
    \/ \E t \in Threads : SubReadBody(t)
    \/ \E t \in Threads : \E v \in DOMAIN fsmu : \E oldName \in SubNames, newName \in SubNames :
           BeginSubRename(t, v, oldName, newName)
    \/ \E t \in Threads : SubRenameRemoveEntry(t)
    \/ \E t \in Threads : SubRenameSetEntry(t)
    \/ \E t \in Threads : SubReturn(t)

SpecSub == InitSub /\ [][NextSub]_vars

\* C33 (as claimed): what a ReadDir made through one FS value returns is
\* what it returns for the tree as it was when it was called or as a Rename
\* that took effect while it ran left it, through whichever of the FS
\* values the Rename was made: never for a tree with the Rename half done.
SubReadsSeeWholeCalls ==
    \A t \in Threads :
        calls[t].pc = "return" /\ calls[t].op = "ReadDir" => calls[t].res \in calls[t].seen

(***************************************************************************)
(* Writes beyond the end: files are written, truncated by a second Create  *)
(* and written again at and after their end.                               *)
(***************************************************************************)

SparsePaths == {<<"/", "a">>, <<"/", "b">>}

\* where the writes start
SparseOffsets == {0, 1}

NextSparse ==
    \/ \E path \in SparsePaths : CallCreate(path)
    \/ \E h \in HandleIds, p \in Payloads : CallWrite(h, p)
    \/ \E h \in HandleIds, off \in SparseOffsets : CallWriteAt(h, <<"x">>, off)
    \/ \E h \in HandleIds, off \in SparseOffsets : CallSeek(h, off, SeekStart)
    \/ \E h \in HandleIds : CallRead(h, 1)
    \/ \E h \in HandleIds : CallCloseAndDrop(h)
    \/ Tick

SpecSparse == Init /\ [][NextSparse]_vars

\* the file of node i, of length len before the write, reaches to `to` and
\* holds zeros from its old end up to `from`, where the write started
SparseExtended(nodes, i, len, from, to) ==
    /\ nodes[i].len = to
    /\ \A k \in (len + 1)..from : nodes[i].buf[k] = zero

\* C34 (as claimed): a WriteAt at an offset beyond the end of the file, and
\* a Write through a handle whose cursor is beyond the end, extend the file
\* to the end of what was written and leave zeros between the old end and
\* the start of the write.
WritesBeyondEndLeaveZeros ==
    \A h \in HandleIds :
        handles[h].kind = "File" =>
            LET i == handles[h].node
            IN  /\ \A off \in SparseOffsets :
                       LET r == WriteAt(heap, handles[h], <<"x">>, off, now)
                       IN  (r.err = ErrNone /\ off > heap[i].len) =>
                               SparseExtended(r.nodes, i, heap[i].len, off, off + 1)
                /\ LET r == Write(heap, handles[h], <<"x">>, now)
                   IN  (r.err = ErrNone /\ handles[h].pos > heap[i].len) =>
                           SparseExtended(r.nodes, i, heap[i].len, handles[h].pos, handles[h].pos + 1)

(***************************************************************************)
(* Opening: a file whose permission bits change is opened with each of the *)
(* access flags.                                                           *)
(***************************************************************************)

OpenPath == <<"/", "a">>

\* the flags OpenFile is called with
AccessModes == {ReadOnly, WriteOnly, ReadWrite, {}, ReadWrite \cup Create, WriteOnly \cup AppendFlag}

\* the permission bits the file is given
OpenPerms == {ModePerm, {"r"}, {"w"}, {"x"}}

NextOpen ==
    \/ \E mode \in AccessModes : CallOpenFile(OpenPath, mode, ModePerm)
    \/ \E perm \in OpenPerms : CallChmod(OpenPath, perm)
    \/ \E h \in HandleIds, p \in Payloads : CallWrite(h, p)
    \/ \E h \in HandleIds : CallSeek(h, 0, SeekStart)
    \/ \E h \in HandleIds : CallRead(h, 1)
    \/ \E h \in HandleIds : CallCloseAndDrop(h)
    \/ Tick

SpecOpen == Init /\ [][NextOpen]_vars

\* the permission bits of the file at OpenPath
OpenBits == heap[FSgetEntryWithParent(heap, RootId, OpenPath, doesntMatter).c].mode

\* OpenFile with these flags asks for more than the file's bits allow
AsksTooMuch(mode) ==
    \/ ("ReadOnly" \in mode /\ "r" \notin OpenBits)
    \/ ("WriteOnly" \in mode /\ "w" \notin OpenBits)

\* C35: OpenFile on an existing regular file fails with Permission exactly
\* when Read is asked for and the file has no read bit, or Write is asked for
\* and the file has no write bit; otherwise the handle holds Seek, Read iff
\* ReadOnly was among the flags, Write iff WriteOnly was, and nothing else.
OpenGrantsWhatFlagsAsk ==
    Named(heap, OpenPath) = "file" =>
        \A mode \in AccessModes :
            LET r == openFile(heap, RootId, OpenPath, mode, ModePerm, now)
            IN  IF AsksTooMuch(mode)
                THEN r.err = ErrPermission /\ r.handle = NoHandle
                ELSE /\ r.err = ErrNone
                     /\ r.handle.kind = "File"
                     /\ "opSeek" \in r.handle.opMode
                     /\ ("opRead" \in r.handle.opMode) = ("ReadOnly" \in mode)
                     /\ ("opWrite" \in r.handle.opMode) = ("WriteOnly" \in mode)
                     /\ r.handle.opMode \subseteq {"opSeek", "opRead", "opWrite"}

\* C35 witness: a handle that was opened to write only is held on a file
\* that has since lost its read bit, so that OpenFile to read is refused
\* and OpenFile to write is not
OpenRefusedAndGranted ==
    /\ Named(heap, OpenPath) = "file"
    /\ \E h \in HandleIds : handles[h].kind = "File" /\ handles[h].opMode = {"opSeek", "opWrite"}
    /\ OpenBits = {"w"}
    /\ openFile(heap, RootId, OpenPath, ReadOnly, ModePerm, now).err = ErrPermission
    /\ openFile(heap, RootId, OpenPath, WriteOnly, ModePerm, now).err = ErrNone

(***************************************************************************)
(* Open modifiers: a file is created, written, closed and opened again     *)
(* with and without Truncate and Append, as time passes.                   *)
(***************************************************************************)

ModifierPath == <<"/", "a">>

\* the flags OpenFile is called with
ModifierModes == {ReadWrite, ReadWrite \cup Truncate, ReadWrite \cup AppendFlag,
                  ReadWrite \cup Truncate \cup AppendFlag, ReadOnly \cup Truncate,
                  WriteOnly \cup Create \cup AppendFlag}

NextModifiers ==
    \/ CallCreate(ModifierPath)
    \/ \E mode \in ModifierModes : CallOpenFile(ModifierPath, mode, defaultPerms)
    \/ \E h \in HandleIds, p \in Payloads : CallWrite(h, p)
    \/ \E h \in HandleIds : CallSeek(h, 0, SeekStart)
    \/ \E h \in HandleIds : CallCloseAndDrop(h)
    \/ Tick

SpecModifiers == Init /\ [][NextModifiers]_vars

\* the inode of the file at ModifierPath
ModifierFile == FSgetEntryWithParent(heap, RootId, ModifierPath, doesntMatter).c

\* the step gave a handle on the file that was at ModifierPath
OpenedExisting == Named(heap, ModifierPath) = "file" /\ handles' # handles

\* C36: an OpenFile that succeeds on an existing file leaves it, with
\* Truncate among the flags, with no bytes and the time of the call as its
\* modification time, and otherwise with the bytes and the modification time
\* it had; the handle's cursor is the length of the file after the call with
\* Append among the flags and 0 otherwise.  Create on an existing file is
\* OpenFile with Truncate.
OpenModifiersObeyed ==
    [][/\ \A mode \in ModifierModes :
             (OpenedExisting /\ CallOpenFile(ModifierPath, mode, defaultPerms)) =>
                 /\ IF "Truncate" \in mode
                    THEN /\ heap'[ModifierFile].len = 0
                         /\ Data(heap'[ModifierFile]) = <<>>
                         /\ heap'[ModifierFile].modtime = now
                    ELSE /\ Data(heap'[ModifierFile]) = Data(heap[ModifierFile])
                         /\ heap'[ModifierFile].modtime = heap[ModifierFile].modtime
                 /\ handles'[FreeHandle].pos =
                        IF "Append" \in mode THEN heap'[ModifierFile].len ELSE 0
       /\ (OpenedExisting /\ CallCreate(ModifierPath)) =>
              /\ heap'[ModifierFile].len = 0
              /\ heap'[ModifierFile].modtime = now
              /\ handles'[FreeHandle].pos = 0]_vars

\* C36 witness: a file that held bytes has been truncated by an open later
\* than its last write (its bytes are still in the array behind it), and the
\* handle is at 0
TruncatedLater ==
    /\ Named(heap, ModifierPath) = "file"
    /\ heap[ModifierFile].len = 0
    /\ heap[ModifierFile].buf # <<>>
    /\ heap[ModifierFile].modtime = MaxTime
    /\ \E h \in HandleIds : handles[h].kind = "File" /\ handles[h].pos = 0

(***************************************************************************)
(* ReadFrom before the end of the file                                     *)
(***************************************************************************)

\* C37 (as claimed): ReadFrom that succeeds on a handle whose cursor is before
\* the end of the file leaves the file no shorter than it was, and leaves
\* every byte after the ones it wrote as it was.
ReadFromNeverShortens ==
    [][\A h \in HandleIds :
          (/\ Called(h)
           /\ last'.op = "ReadFrom"
           /\ last'.err = ErrNone
           /\ handles[h].pos < heap[handles[h].node].len) =>
              LET before == Data(heap[handles[h].node])
                  after == Data(heap'[handles[h].node])
              IN  /\ Len(after) >= Len(before)
                  /\ \A k \in (handles'[h].pos + 1)..Len(before) : after[k] = before[k]]_vars

(***************************************************************************)
(* Directory handles while entries are removed                             *)
(***************************************************************************)

\* C38 (as claimed): the cursor of a directory handle is never beyond the
\* entries of its directory, and no ReadDir ends in a panic.
DirCursorWithinEntries ==
    /\ \A h \in HandleIds :
           handles[h].kind = "directoryRW" => handles[h].pos <= Len(heap[handles[h].node].entries)
    /\ last.op = "ReadDir" => last.err # Panic

(***************************************************************************)
(* Copies between handles: WriteTo and ReadFrom whose other end is a       *)
(* handle of this file system, on the same inode (handles 1 and 2) or on   *)
(* another (handle 3).                                                     *)
(***************************************************************************)

\* File.ReadFrom: validTo and f.grow(f.pos + 1), at the head of the loop
ReadFromGrow(t) ==
    LET f == handles[calls[t].h]
        err == validTo(heap, f, opWrite, FALSE)
    IN  /\ calls[t].pc = "body"
        /\ calls[t].op = "ReadFrom"
        /\ heap' = IF err = ErrNone THEN [heap EXCEPT ![f.node] = grow(@, f.pos + 1)] ELSE heap
        /\ whole' = heap'
        /\ calls' = [calls EXCEPT ![t].res = err,
                                  ![t].pc = IF err = ErrNone THEN "rlock" ELSE "return"]
        /\ UNCHANGED <<handles, now, ro, links, resolving, fsmu, mus, last>>

\* File.ReadFrom: r.Read, the Read of the handle w, locks the inode of w
ReadFromLock(t) ==
    /\ calls[t].pc = "rlock"
    /\ CanAcquire(mus[InodeOf(calls[t].w)], InodeLockOf("Read"))
    /\ mus' = [mus EXCEPT ![InodeOf(calls[t].w)] = Acquire(@, InodeLockOf("Read"), t)]
    /\ calls' = [calls EXCEPT ![t].pc = "read"]
    /\ UNCHANGED <<heap, handles, now, ro, links, resolving, fsmu, whole, last>>

\* File.ReadFrom: r.Read fills f.data[f.pos:cap(f.data)] and unlocks, f.pos
\* moves on and the file is cut at f.pos; io.EOF ends the loop
ReadFromRead(t) ==
    LET f == handles[calls[t].h]
        r == Read(heap, handles[calls[t].w], Len(heap[f.node].buf) - f.pos)
        n == Len(r.out)
    IN  /\ calls[t].pc = "read"
        /\ heap' = [heap EXCEPT ![f.node] =
                       [@ EXCEPT !.buf = CopyInto(@, Len(@), f.pos, r.out), !.len = f.pos + n]]
        /\ whole' = heap'
        /\ handles' = [handles EXCEPT ![calls[t].w] = r.handle, ![calls[t].h].pos = @ + n]
        /\ mus' = [mus EXCEPT ![InodeOf(calls[t].w)] = Release(@, InodeLockOf("Read"), t)]
        /\ calls' = [calls EXCEPT ![t].res = IF r.err = EOF THEN ErrNone ELSE r.err,
                                  ![t].pc = IF r.err = ErrNone THEN "body" ELSE "return"]
        /\ UNCHANGED <<now, ro, links, resolving, fsmu, last>>

\* File.ReadFrom returns: its deferred Unlock
ReadFromReturn(t) ==
    /\ calls[t].pc = "return"
    /\ calls[t].op = "ReadFrom"
    /\ mus' = [mus EXCEPT ![InodeOf(calls[t].h)] = Release(@, InodeLockOf("ReadFrom"), t)]
    /\ calls' = [calls EXCEPT ![t] = [Idle EXCEPT !.left = calls[t].left]]
    /\ UNCHANGED <<heap, handles, now, ro, links, resolving, fsmu, whole, last>>

NextCopy ==
    \/ \E t \in Threads : \E h \in Own(t) : \E w \in FileHandleIds \ {h} : BeginFile(t, "WriteTo", h, w)
    \/ \E t \in Threads : \E h \in Own(t) : \E w \in FileHandleIds \ {h} : BeginFile(t, "ReadFrom", h, w)
    \/ \E t \in Threads : FileWriteToCopy(t)
    \/ \E t \in Threads : FileWriteToLock(t)
    \/ \E t \in Threads : FileWriteToWrite(t)
    \/ \E t \in Threads : ReturnFile(t)
    \/ \E t \in Threads : ReadFromGrow(t)
    \/ \E t \in Threads : ReadFromLock(t)
    \/ \E t \in Threads : ReadFromRead(t)
    \/ \E t \in Threads : ReadFromReturn(t)

SpecCopy == InitFiles /\ [][NextCopy]_vars

\* thread t is in a copy between two handles of one inode, at the point
\* where the other handle's method takes the inode's lock, and holds that
\* lock itself: the call has no further step
CopyWaitsForItself(t) ==
    /\ calls[t].op \in {"WriteTo", "ReadFrom"}
    /\ calls[t].pc \in {"lock", "rlock"}
    /\ InodeOf(calls[t].h) = InodeOf(calls[t].w)
    /\ t \in Holders(mus[InodeOf(calls[t].w)])

\* C39 (as claimed): h1.WriteTo(h2) and h2.ReadFrom(h1) with h1 and h2 open on
\* one inode return: the call never comes to wait for a lock that only its
\* own return gives up.
SameInodeCopyReturns == \A t \in Threads : ~CopyWaitsForItself(t)

(***************************************************************************)
(* Offsets: ReadAt and WriteAt with offsets below, at and after 0.         *)
(***************************************************************************)

\* the offsets ReadAt and WriteAt are called with
AtOffsets == {-1, 0, 1}

NextOffsets ==
    \E h \in HandleIds :
        \/ \E off \in AtOffsets : FileReadAt(h, 1, off)
        \/ \E off \in AtOffsets, p \in {<<cont>>, <<lead, cont>>} : FileWriteAt(h, p, off)
        \/ FileRead(h, 1)
        \/ FileWrite(h, <<"a">>)
        \/ \E offset \in {0, 1} : FileSeek(h, offset, SeekStart)
        \/ FileClose(h)
        \/ FileOpen(h)

SpecOffsets == InitHandle /\ [][NextOffsets]_vars

\* C40 (as claimed): ReadAt and WriteAt called with an offset below zero
\* return an error, not a panic, and leave the file and the handle as they
\* were.
NegativeOffsetsRefused ==
    [][\A h \in HandleIds :
          (/\ Called(h)
           /\ last'.op \in {"ReadAt", "WriteAt"}
           /\ last'.arg[2] < 0) =>
              /\ last'.err \notin {ErrNone, Panic}
              /\ heap' = heap
              /\ handles' = handles]_vars

====
